---- MODULE Spec2Model ----
(***************************************************************************)
(* A model of the BioStudies MCP server: the accession validator, the      *)
(* HTTP client (BioStudiesApiClient) and the tool handlers                 *)
(* (BioStudiesHandlers).                                                   *)
(*                                                                         *)
(* Strings are sequences of one-character strings, so that the regular     *)
(* expressions of the validator are matched character by character.  A     *)
(* JavaScript value is a record [t |-> its type, s |-> its characters when *)
(* it is a string].                                                        *)
(***************************************************************************)
EXTENDS Integers, Sequences, FiniteSets, TLC

(***************************************************************************)
(* Bounds of the model.                                                    *)
(***************************************************************************)
\* the longest batch whose members are drawn freely
MaxBatch == 3
\* the longest run of digits in a generated accession
MaxDigits == 2

(***************************************************************************)
(* Characters.                                                             *)
(***************************************************************************)
UpperSeq == <<"A","B","C","D","E","F","G","H","I","J","K","L","M",
              "N","O","P","Q","R","S","T","U","V","W","X","Y","Z">>
LowerSeq == <<"a","b","c","d","e","f","g","h","i","j","k","l","m",
              "n","o","p","q","r","s","t","u","v","w","x","y","z">>
UpperLetters == {UpperSeq[i] : i \in 1..26}
LowerLetters == {LowerSeq[i] : i \in 1..26}
Digits == {"0","1","2","3","4","5","6","7","8","9"}

\* Canonicalize of a case-insensitive, non-unicode RegExp: the upper-case
\* form of an ASCII letter; every other character (also one whose upper case
\* would be an ASCII letter, such as U+017F, written "LONG_S") is itself.
Canon(c) ==
  IF c \in LowerLetters
    THEN UpperSeq[CHOOSE i \in 1..26 : LowerSeq[i] = c]
    ELSE c

(***************************************************************************)
(* Regular expressions: a pattern is a sequence of atoms, each a character *)
(* class repeated between min and max times (max = -1: unbounded); the     *)
(* pattern is anchored at both ends (^ ... $) and carries the i flag.      *)
(***************************************************************************)
Lit(c) == [cls |-> {c}, word |-> FALSE, min |-> 1, max |-> 1]
OneOf(S) == [cls |-> S, word |-> FALSE, min |-> 1, max |-> 1]
DigitPlus == [cls |-> Digits, word |-> FALSE, min |-> 1, max |-> -1]
WordTimes(n) == [cls |-> {}, word |-> TRUE, min |-> n, max |-> n]

LitSeq(s) == [i \in 1..Len(s) |-> Lit(s[i])]

\* \w is [A-Za-z0-9_]; a class matches when the canonical forms agree
AtomMatches(a, c) ==
  IF a.word
    THEN c \in UpperLetters \cup LowerLetters \cup Digits \cup {"_"}
    ELSE \E k \in a.cls : Canon(k) = Canon(c)

Min2(a, b) == IF a < b THEN a ELSE b

RECURSIVE MatchAt(_, _, _, _)
\* does pattern p from atom k on match s from position j to the end of s
MatchAt(p, k, s, j) ==
  IF k > Len(p)
    THEN j = Len(s) + 1
    ELSE LET a == p[k]
             left == Len(s) - j + 1
             hi == IF a.max = -1 THEN left ELSE Min2(a.max, left)
         IN \E n \in a.min..hi :
              /\ \A t \in 0..(n - 1) : AtomMatches(a, s[j + t])
              /\ MatchAt(p, k + 1, s, j + n)

RegexTest(p, s) == MatchAt(p, 1, s, 1)

(***************************************************************************)
(* JavaScript values.                                                      *)
(***************************************************************************)
Str(s) == [t |-> "string", s |-> s]
JsNull == [t |-> "null", s |-> <<>>]
JsUndefined == [t |-> "undefined", s |-> <<>>]
JsZero == [t |-> "number0", s |-> <<>>]
JsNumber == [t |-> "number", s |-> <<>>]
JsArray == [t |-> "array", s |-> <<>>]
JsObject == [t |-> "object", s |-> <<>>]

\* !v is false
Truthy(v) ==
  CASE v.t = "string" -> v.s # <<>>
    [] v.t \in {"null", "undefined", "number0"} -> FALSE
    [] OTHER -> TRUE

IsString(v) == v.t = "string"

(***************************************************************************)
(* AccessionValidator: BioStudiesApiClient.isValidAccessionNumber.         *)
(***************************************************************************)
patterns ==
  << LitSeq(<<"S","-","B","S","S","T">>) \o <<DigitPlus>>,
     LitSeq(<<"E","-">>) \o <<WordTimes(4)>> \o <<Lit("-"), DigitPlus>>,
     LitSeq(<<"E","M","P","I","A","R","-">>) \o <<DigitPlus>>,
     LitSeq(<<"S","-","B","I","A","D">>) \o <<DigitPlus>>,
     LitSeq(<<"S","-","B","S","M","S">>) \o <<DigitPlus>>,
     LitSeq(<<"P","R","J">>) \o <<OneOf({"E","D","N"}), OneOf(UpperLetters), DigitPlus>> >>

\* a plausible slip: the patterns lose their i flag
CaseSensitiveValidator(accno) ==
  IF ~Truthy(accno) \/ ~IsString(accno)
    THEN FALSE
    ELSE \E i \in 1..Len(patterns) :
           /\ RegexTest(patterns[i], accno.s)
           /\ \A j \in 1..Len(accno.s) : accno.s[j] \notin LowerLetters

isValidAccessionNumber(accno) ==
  IF ~Truthy(accno) \/ ~IsString(accno)
    THEN FALSE
    ELSE \E i \in 1..Len(patterns) : RegexTest(patterns[i], accno.s)


(***************************************************************************)
(* Messages and texts are sequences of pieces (strings); the empty         *)
(* sequence is the empty string, which JavaScript treats as false.         *)
(***************************************************************************)
NoMsg == <<>>

\* `${v}` of a template literal
JsToString(v) ==
  CASE v.t = "string" -> v.s
    [] v.t = "number0" -> <<"0">>
    [] v.t = "number" -> <<"5">>
    [] v.t = "array" -> <<>>
    [] OTHER -> <<v.t>>

\* String.prototype.toLowerCase on the characters of the model
ToLower(c) ==
  IF c \in UpperLetters
    THEN LowerSeq[CHOOSE i \in 1..26 : UpperSeq[i] = c]
    ELSE c
toLowerCase(s) == [i \in 1..Len(s) |-> ToLower(s[i])]

(***************************************************************************)
(* Response bodies (the `data` of makeRequest).                            *)
(***************************************************************************)
Data(k, message, errorField, token) ==
  [k |-> k, message |-> message, errorField |-> errorField, token |-> token,
   files |-> <<>>, subsections |-> <<>>, subsectionsIsArray |-> TRUE,
   hasHits |-> FALSE, hits |-> 0, totalHits |-> 0, page |-> 0,
   attributes |-> <<>>, authors |-> 0, views |-> 0, downloads |-> 0]
DataUndefined == Data("undefined", NoMsg, NoMsg, NoMsg)
\* a JSON body that is null, false, 0 or ""
DataNullish == Data("nullish", NoMsg, NoMsg, NoMsg)
DataText == Data("text", NoMsg, NoMsg, NoMsg)
DataObject == Data("object", NoMsg, NoMsg, NoMsg)
DataToken == Data("object", NoMsg, NoMsg, <<"tok">>)
DataWithMessage(m) == Data("object", m, NoMsg, NoMsg)
DataWithError(m) == Data("object", NoMsg, m, NoMsg)
\* a study body: the files of its section (each file a number), and its
\* subsections, each with its own files and the files of its own subsections
Subsection(files, deeper) == [files |-> files, deeper |-> deeper, typed |-> TRUE]
\* a subsection that has no `type`
Untyped == [files |-> <<>>, deeper |-> <<>>, typed |-> FALSE]
DataStudy(files, subsections) ==
  [DataObject EXCEPT !.files = files, !.subsections = subsections]
\* a SearchResponse body: the number of its hits, its totalHits, its page
DataSearch(hits, totalHits, page) ==
  [DataObject EXCEPT !.hasHits = TRUE, !.hits = hits, !.totalHits = totalHits,
                     !.page = page]
\* a study body with the optional fields the details view renders: the
\* names of its attributes, the number of its authors, its counters
DataOptional(attributes, authors, views, downloads) ==
  [DataObject EXCEPT !.attributes = attributes, !.authors = authors,
                     !.views = views, !.downloads = downloads]
\* a body whose `section.subsections` has a length but is no array
DataStudyOddSubsections ==
  [DataObject EXCEPT !.subsectionsIsArray = FALSE]

DataTruthy(d) == d.k \in {"object", "text"}

(***************************************************************************)
(* What the network does with one fetch: a response arrives (status,       *)
(* whether its Content-Type is JSON, whether the JSON body parses, the     *)
(* body), or fetch rejects (with an Error of some name and message, or     *)
(* with a value that is no Error).                                         *)
(***************************************************************************)
Resp(status, json, parseOk, data) ==
  [kind |-> "response", status |-> status, json |-> json, parseOk |-> parseOk,
   data |-> data, isErr |-> FALSE, name |-> "", message |-> NoMsg]
Throw(isErr, name, message) ==
  [kind |-> "throw", status |-> 0, json |-> FALSE, parseOk |-> TRUE,
   data |-> DataUndefined, isErr |-> isErr, name |-> name, message |-> message]
NoOutcome ==
  [kind |-> "none", status |-> 0, json |-> FALSE, parseOk |-> TRUE,
   data |-> DataUndefined, isErr |-> FALSE, name |-> "", message |-> NoMsg]

UpstreamMsg == <<"upstream says no">>
\* an upstream that words its refusal as the client's own format check does
EchoMsg == <<"Invalid accession number format: ", "S","-","B","S","S","T","1">>

\* AbortSignal.timeout aborts with a DOMException named TimeoutError; a fetch
\* that ignores the signal's reason rejects with one named AbortError.
TimeoutOutcomes ==
  { Throw(TRUE, "TimeoutError", <<"The operation was aborted due to timeout">>),
    Throw(TRUE, "AbortError", <<"This operation was aborted">>) }

\* study bodies: files in the section, in both subsections and two levels
\* down; files in the second subsection only; files two levels down only;
\* subsections that are no array
StudyOutcomes ==
  { Resp(200, TRUE, TRUE,
         DataStudy(<<1, 2>>, <<Subsection(<<3>>, <<6>>), Subsection(<<4, 5>>, <<>>)>>)),
    Resp(200, TRUE, TRUE, DataStudy(<<>>, <<Subsection(<<>>, <<>>), Subsection(<<3, 4>>, <<>>)>>)),
    Resp(200, TRUE, TRUE, DataStudy(<<>>, <<Subsection(<<>>, <<5>>)>>)),
    Resp(200, TRUE, TRUE, DataStudyOddSubsections) }

\* answers to a search: a full first page of a longer result, its short
\* second page, a short only page, a short first page of a longer result,
\* no hit, and a full page of 100
SearchOutcomes ==
  { Resp(200, TRUE, TRUE, DataSearch(20, 25, 0)),
    Resp(200, TRUE, TRUE, DataSearch(5, 25, 1)),
    Resp(200, TRUE, TRUE, DataSearch(5, 5, 0)),
    Resp(200, TRUE, TRUE, DataSearch(5, 25, 0)),
    Resp(200, TRUE, TRUE, DataSearch(0, 0, 0)),
    Resp(200, TRUE, TRUE, DataSearch(100, 300, 0)) }

\* studies for the details view: 10, 11 and 12 files with 5, 6 and 7
\* subsections (one of them without a type), a study whose only attribute
\* is its title, and a study with every optional field
NFiles(n) == [i \in 1..n |-> i]
NSubsections(m) == [i \in 1..m |-> Subsection(<<>>, <<>>)]
DetailOutcomes ==
  { Resp(200, TRUE, TRUE, DataStudy(NFiles(10), NSubsections(5))),
    Resp(200, TRUE, TRUE, DataStudy(NFiles(11), NSubsections(6))),
    Resp(200, TRUE, TRUE,
         DataStudy(NFiles(12), [NSubsections(7) EXCEPT ![2] = Untyped])),
    Resp(200, TRUE, TRUE, DataOptional(<<"Title">>, 0, 0, 0)),
    Resp(200, TRUE, TRUE, DataOptional(<<"Title", "Organism">>, 2, 3, 0)) }

NetOutcomes ==
  { Resp(200, TRUE, TRUE, DataObject),
    Resp(200, TRUE, TRUE, DataToken),
    Resp(200, TRUE, TRUE, DataNullish),
    Resp(200, FALSE, TRUE, DataText),
    Resp(200, TRUE, FALSE, DataUndefined),
    Resp(404, TRUE, TRUE, DataWithMessage(UpstreamMsg)),
    Resp(404, FALSE, TRUE, DataUndefined),
    Resp(404, TRUE, FALSE, DataUndefined),
    Resp(500, TRUE, TRUE, DataWithError(UpstreamMsg)),
    Resp(500, TRUE, TRUE, DataObject),
    Resp(500, TRUE, TRUE, DataNullish),
    Throw(TRUE, "TypeError", <<"fetch failed">>),
    Throw(TRUE, "Error", NoMsg),
    Throw(FALSE, "", NoMsg),
    Resp(400, TRUE, TRUE, DataWithMessage(EchoMsg)) }
    \cup TimeoutOutcomes \cup StudyOutcomes

\* the outcomes a member of a batch draws from: a success, a failure with a
\* message and a failure whose message is empty
BatchOutcomes ==
  { Resp(200, TRUE, TRUE, DataObject),
    Resp(404, TRUE, TRUE, DataWithMessage(UpstreamMsg)),
    Throw(TRUE, "Error", NoMsg) }

ResponseOk(o) == o.status >= 200 /\ o.status <= 299

StatusDigits(n) ==
  CASE n = 200 -> "200" [] n = 400 -> "400" [] n = 404 -> "404" [] n = 500 -> "500"
    [] OTHER -> "0"
StatusText(n) ==
  CASE n = 200 -> "OK" [] n = 400 -> "Bad Request" [] n = 404 -> "Not Found"
    [] n = 500 -> "Internal Server Error" [] OTHER -> ""

(***************************************************************************)
(* ApiResponse<T>: { data?, error?, status }.                              *)
(***************************************************************************)
ApiData(d, status) ==
  [hasData |-> TRUE, data |-> d, hasError |-> FALSE, error |-> NoMsg, status |-> status]
ApiError(m, status) ==
  [hasData |-> FALSE, data |-> DataUndefined, hasError |-> TRUE, error |-> m,
   status |-> status]
NoResult ==
  [hasData |-> FALSE, data |-> DataUndefined, hasError |-> FALSE, error |-> NoMsg,
   status |-> -1]

\* `if (result.error)`: the field is there and is not the empty string
ErrorTruthy(r) == r.hasError /\ r.error # NoMsg
\* `result.data` is truthy
ResultDataTruthy(r) == r.hasData /\ DataTruthy(r.data)

\* BioStudiesApiClient.makeRequest, from the settling of fetch on
makeRequest(o) ==
  IF o.kind = "throw"
    THEN IF o.isErr
           THEN IF o.name = "AbortError"
                  THEN ApiError(<<"Request timeout">>, 408)
                  ELSE ApiError(o.message, 0)
           ELSE ApiError(<<"Unknown error occurred">>, 0)
    ELSE IF o.json /\ ~o.parseOk
      \* response.json() throws a SyntaxError inside the try block
      THEN ApiError(<<"Unexpected end of JSON input">>, 0)
      ELSE LET data == IF o.json THEN o.data
                       ELSE IF ResponseOk(o) THEN o.data ELSE DataUndefined
           IN IF ~ResponseOk(o)
                THEN LET errorMessage ==
                           IF DataTruthy(data)
                             THEN IF data.message # NoMsg THEN data.message
                                  ELSE IF data.errorField # NoMsg THEN data.errorField
                                  ELSE <<"HTTP ", StatusDigits(o.status)>>
                             ELSE <<"HTTP ", StatusDigits(o.status), ": ",
                                    StatusText(o.status)>>
                     IN ApiError(errorMessage, o.status)
                ELSE ApiData(data, o.status)

(***************************************************************************)
(* The fixed tables of the fallback provider.                              *)
(***************************************************************************)
KeyArrayexpress == <<"a","r","r","a","y","e","x","p","r","e","s","s">>
KeyBioimages == <<"b","i","o","i","m","a","g","e","s">>
KeyEmpiar == <<"e","m","p","i","a","r">>
KeyBiostudies == <<"b","i","o","s","t","u","d","i","e","s">>
KeyConstructor == <<"c","o","n","s","t","r","u","c","t","o","r">>
KnownKeys == {KeyArrayexpress, KeyBioimages, KeyEmpiar, KeyBiostudies}

\* the `suggestions` table of getCollectionSuggestions
suggestions(k) ==
  CASE k = KeyArrayexpress ->
         << <<"E","-","M","T","A","B","-","7","2","4","9">>,
            <<"E","-","M","T","A","B","-","6","8","1","9">>,
            <<"E","-","M","T","A","B","-","5","0","6","1">>,
            <<"E","-","M","T","A","B","-","4","7","4","8">>,
            <<"E","-","M","T","A","B","-","4","4","2","1">> >>
    [] k = KeyBioimages ->
         << <<"S","-","B","I","A","D","4","2","3">>,
            <<"S","-","B","I","A","D","4","2","4">>,
            <<"S","-","B","I","A","D","4","2","5">>,
            <<"S","-","B","I","A","D","4","2","6">>,
            <<"S","-","B","I","A","D","4","2","7">> >>
    [] k = KeyEmpiar ->
         << <<"E","M","P","I","A","R","-","1","0","0","0","1">>,
            <<"E","M","P","I","A","R","-","1","0","0","0","2">>,
            <<"E","M","P","I","A","R","-","1","0","0","0","3">>,
            <<"E","M","P","I","A","R","-","1","0","0","0","4">>,
            <<"E","M","P","I","A","R","-","1","0","0","0","5">> >>
    [] k = KeyBiostudies ->
         << <<"S","-","B","S","S","T","1">>,
            <<"S","-","B","S","S","T","2">>,
            <<"S","-","B","S","S","T","3">>,
            <<"S","-","B","S","S","T","4">>,
            <<"S","-","B","S","S","T","5">> >>
    [] OTHER -> <<>>


(***************************************************************************)
(* The state.                                                              *)
(*   authToken  the bearer token field of the client (NoMsg: none)         *)
(*   pc         where the current tool invocation stands                   *)
(*   tool       the handler (or client method) invoked                     *)
(*   args       its arguments                                              *)
(*   calls      the client calls made by the invocation, in order: for     *)
(*              each, whether a fetch was issued, the token it carried,    *)
(*              what the network did and the ApiResponse it returned       *)
(*   results    the settled promises of a batch, by input position         *)
(*   settled    the positions of a batch in the order they settled         *)
(*   ret        what the client method called by the handler returned      *)
(*   payload    what the handler returned or threw                         *)
(*   reply      what the CallTool request handler made of it                *)
(*   clIn, clOut, clPc   the input, result and position of one run of the  *)
(*              accession validator on its own                             *)
(*   qIn, qOut  the arguments and the query string of one search request   *)
(*              taken on its own                                           *)
(***************************************************************************)
VARIABLES authToken, pc, tool, args, calls, results, settled, ret, payload,
          reply, clIn, clOut, clPc, qIn, qOut

pipelineVars == <<authToken, pc, tool, args, calls, results, settled, ret, payload, reply>>
classifyVars == <<clIn, clOut, clPc, qIn, qOut>>
vars == <<authToken, pc, tool, args, calls, results, settled, ret, payload,
          reply, clIn, clOut, clPc, qIn, qOut>>

(***************************************************************************)
(* Program constants.                                                      *)
(***************************************************************************)
\* `accessions.length > 50` of the client
ClientMaxAccessions == 50
\* `args.accessions.length > 50` of the handler
HandlerMaxAccessions == 50

(***************************************************************************)
(* Accessions of the model.                                                *)
(***************************************************************************)
AccA == <<"S","-","B","S","S","T","1">>
AccB == <<"e","-","m","t","a","b","-","2">>
AccBad == <<"B","A","D","-","1">>

(***************************************************************************)
(* Paging arguments: what the caller put in `page` and `size` (nothing, a  *)
(* number, NaN or a string), and what the handlers make of them.           *)
(***************************************************************************)
NotSupplied == [t |-> "undefined", n |-> 0]
Num(n) == [t |-> "number", n |-> n]
NaN == [t |-> "nan", n |-> 0]
NumericString(n) == [t |-> "string", n |-> n]

\* `v && typeof v === 'number'`
TruthyNumber(v) == v.t = "number" /\ v.n # 0

DefaultPage == 0
DefaultSize == 20
MaxSize == 100

\* `args.page && typeof args.page === 'number' ? args.page : 0`
pageOf(v) == IF TruthyNumber(v) THEN v.n ELSE DefaultPage

\* a plausible slip: the size is passed on as given
SizeWithoutCap(v) == IF TruthyNumber(v) THEN v.n ELSE DefaultSize

\* `args.size && typeof args.size === 'number' ? Math.min(args.size, 100) : 20`
sizeOf(v) == IF TruthyNumber(v) THEN Min2(v.n, MaxSize) ELSE DefaultSize

(***************************************************************************)
(* Records of the state.                                                   *)
(***************************************************************************)
Args(accno, accessions, isArray, collection, query, hasCreds) ==
  [present |-> TRUE, accno |-> accno, accessions |-> accessions, isArray |-> isArray,
   collection |-> collection, query |-> query, hasCreds |-> hasCreds,
   page |-> NotSupplied, size |-> NotSupplied]
NoArgs == Args(JsUndefined, <<>>, FALSE, JsUndefined, JsUndefined, FALSE)
\* the request carried no `arguments` at all: `args` is undefined
ArgsAbsent == [NoArgs EXCEPT !.present = FALSE]
AccnoArgs(v) == Args(v, <<>>, FALSE, JsUndefined, JsUndefined, FALSE)
BatchArgs(a) == Args(JsUndefined, a, TRUE, JsUndefined, JsUndefined, FALSE)
SearchArgs(c, q) == Args(JsUndefined, <<>>, FALSE, c, q, FALSE)
Paged(a, pg) == [a EXCEPT !.page = pg[1], !.size = pg[2]]

\* a plausible slip: the Authorization header is never attached
PendingCallWithoutToken(method, accno, token) ==
  [method |-> method, accno |-> accno, sent |-> TRUE, auth |-> NoMsg,
   state |-> "pending", outcome |-> NoOutcome, res |-> NoResult, page |-> 0, size |-> 0]

\* one call of a client method that issues one fetch; `auth` is the token of
\* its Authorization header (NoMsg: no such header)
PendingCall(method, accno, token) ==
  [method |-> method, accno |-> accno, sent |-> TRUE, auth |-> token,
   state |-> "pending", outcome |-> NoOutcome, res |-> NoResult, page |-> 0, size |-> 0]
ShortCall(method, accno, res) ==
  [method |-> method, accno |-> accno, sent |-> FALSE, auth |-> NoMsg,
   state |-> "returned", outcome |-> NoOutcome, res |-> res, page |-> 0, size |-> 0]
Settle(call, o, res) ==
  [call EXCEPT !.state = "returned", !.outcome = o, !.res = res]

\* BulkOperationResult and StudyValidation
Bulk(successful, failed, total) ==
  [successful |-> successful, failed |-> failed, total |-> total,
   successCount |-> Len(successful), failureCount |-> Len(failed)]
NoBulk ==
  [successful |-> <<>>, failed |-> <<>>, total |-> 0, successCount |-> 0,
   failureCount |-> 0]
Validation(isValid, exists) == [isValid |-> isValid, exists |-> exists]
NoValidation == Validation(FALSE, FALSE)

Ret(api, validation, bulk) == [api |-> api, validation |-> validation, bulk |-> bulk]
NoRet == Ret(NoResult, NoValidation, NoBulk)

\* what the details view shows of a study: the files and the subsections
\* listed (by position), the counts of the two "... and N more" lines
\* (0: no such line) and, for every block, its header and how many lines
\* it has under it
Details(files, moreFiles, subsections, moreSubsections, blocks) ==
  [files |-> files, moreFiles |-> moreFiles, subsections |-> subsections,
   moreSubsections |-> moreSubsections, blocks |-> blocks]
NoDetails == Details(<<>>, 0, <<>>, 0, {})
Block(header, lines) == [header |-> header, lines |-> lines]

\* the pagination line of a listing of hits
NoTrailer == [kind |-> "none", page |-> 0, shown |-> 0, total |-> 0]
PageTrailer(page, shown, total) ==
  [kind |-> "page", page |-> page, shown |-> shown, total |-> total]
FirstTrailer(shown, total) ==
  [kind |-> "first", page |-> 0, shown |-> shown, total |-> total]

\* what a handler gives back: a content payload (text from a template `tmpl`
\* with the values it embeds) or a thrown Error
Content(isError, tmpl, accno, error, examples, bulk) ==
  [kind |-> "content", isError |-> isError, tmpl |-> tmpl, accno |-> accno,
   error |-> error, examples |-> examples, bulk |-> bulk, listed |-> <<>>,
   trailer |-> NoTrailer, details |-> NoDetails]
\* the details view of a study
StudyView(accno, details) ==
  [Content(FALSE, "Study", accno, NoMsg, <<>>, NoBulk) EXCEPT !.details = details]
\* a text that lists hits, with its pagination line
Hits(tmpl, accno, trailer) ==
  [Content(FALSE, tmpl, accno, NoMsg, <<>>, NoBulk) EXCEPT !.trailer = trailer]
\* a text that lists files
Listing(tmpl, accno, listed) ==
  [Content(FALSE, tmpl, accno, NoMsg, <<>>, NoBulk) EXCEPT !.listed = listed]
Text(tmpl, accno) == Content(FALSE, tmpl, accno, NoMsg, <<>>, NoBulk)
ErrorText(tmpl, accno, error) == Content(TRUE, tmpl, accno, error, <<>>, NoBulk)
Thrown(message) ==
  [kind |-> "thrown", isError |-> FALSE, tmpl |-> "", accno |-> NoMsg,
   error |-> message, examples |-> <<>>, bulk |-> NoBulk, listed |-> <<>>,
   trailer |-> NoTrailer, details |-> NoDetails]
NoPayload ==
  [kind |-> "none", isError |-> FALSE, tmpl |-> "", accno |-> NoMsg,
   error |-> NoMsg, examples |-> <<>>, bulk |-> NoBulk, listed |-> <<>>,
   trailer |-> NoTrailer, details |-> NoDetails]

(***************************************************************************)
(* The CallTool request handler: a switch over the tool name inside a try, *)
(* and a catch that turns what a handler threw into a protocol error or    *)
(* an error-flagged payload.                                               *)
(***************************************************************************)
DispatchedTools == {"getStudyDetails", "validateStudyAccession", "batchGetStudies"}

Result(isError, message) ==
  [kind |-> "result", code |-> "", isError |-> isError, message |-> message]
McpError(code, message) ==
  [kind |-> "mcpError", code |-> code, isError |-> FALSE, message |-> message]
NoReply == [kind |-> "none", code |-> "", isError |-> FALSE, message |-> NoMsg]

\* `errorMessage.includes(word)`, the messages being kept in pieces cut at
\* that word
Includes(message, word) == \E i \in 1..Len(message) : message[i] = word

\* reading property `prop` of the undefined `args`
ReadOfUndefined(prop) ==
  Thrown(<<"Cannot read properties of undefined (reading '", prop, "')">>)

\* what the request handler answers when handler `t` gave p
CallToolReply(t, p) ==
  IF t \notin DispatchedTools \/ p.kind = "none" THEN NoReply
  ELSE IF p.kind = "content" THEN Result(p.isError, NoMsg)
  ELSE IF Includes(p.error, "required")
    THEN McpError("InvalidParams", p.error)
    ELSE Result(TRUE, <<"Error: ">> \o p.error)

(***************************************************************************)
(* BioStudiesApiClient: the methods that take an accession.  Each gives    *)
(* the call it makes: short-circuited with status 400, or a fetch issued.  *)
(***************************************************************************)
InvalidFormat(accno) ==
  ApiError(<<"Invalid accession number format: ">> \o JsToString(accno), 400)

\* a plausible slip: the details method leaves the format to the upstream
DetailsWithoutValidation(accno, token) ==
  PendingCall("getStudyDetails", accno, token)

clientGetStudyDetails(accno, token) ==
  IF ~isValidAccessionNumber(accno)
    THEN ShortCall("getStudyDetails", accno, InvalidFormat(accno))
    ELSE PendingCall("getStudyDetails", accno, token)

clientGetStudyFiles(accno, token) ==
  IF ~isValidAccessionNumber(accno)
    THEN ShortCall("getStudyFiles", accno, InvalidFormat(accno))
    ELSE PendingCall("getStudyFiles", accno, token)

\* a plausible slip: the links method forgets the format check
LinksWithoutValidation(accno, token) ==
  PendingCall("getStudyLinks", accno, token)

clientGetStudyLinks(accno, token) ==
  IF ~isValidAccessionNumber(accno)
    THEN ShortCall("getStudyLinks", accno, InvalidFormat(accno))
    ELSE PendingCall("getStudyLinks", accno, token)

\* the methods that take no accession always issue their fetch
clientRequest(method, token) == PendingCall(method, JsUndefined, token)

\* searchStudies(params): `page` and `size` go into the query string
clientSearchStudies(page, size, token) ==
  [PendingCall("searchStudies", JsUndefined, token) EXCEPT !.page = page, !.size = size]

(***************************************************************************)
(* Query strings.  The arguments of a search are a record of JavaScript    *)
(* values; the query string is the sequence of the <<name, value>> pairs   *)
(* appended to the URLSearchParams, each value as `append` converts it to  *)
(* a string.                                                               *)
(***************************************************************************)
\* an array of keywords
KeywordList(items) == [t |-> "array", s |-> <<>>, items |-> items]

\* Number.prototype.toString
NumberToString(v) == IF v.t = "nan" THEN <<"NaN">> ELSE <<ToString(v.n)>>

\* `if (params.f) searchParams.append('f', params.f)`
AppendIfTruthy(qs, name, v) ==
  IF Truthy(v) THEN Append(qs, <<name, JsToString(v)>>) ELSE qs

\* `if (params.f !== undefined) searchParams.append('f', params.f.toString())`
AppendIfDefined(qs, name, v) ==
  IF v.t # "undefined" THEN Append(qs, <<name, NumberToString(v)>>) ELSE qs

\* `if (params.keywords?.length) params.keywords.forEach(k => append('keywords', k))`
AppendKeywords(qs, v) ==
  IF v.t = "array" /\ Len(v.items) > 0
    THEN qs \o [i \in 1..Len(v.items) |-> <<"keywords", JsToString(v.items[i])>>]
    ELSE qs

RECURSIVE AppendFilters(_, _, _)
\* consecutive `if (params.f) append` lines, for the fields `names`
AppendFilters(qs, names, params) ==
  IF names = <<>> THEN qs
  ELSE AppendFilters(AppendIfTruthy(qs, Head(names), params[Head(names)]),
                     Tail(names), params)

\* the handler's searchParams
studySearchParams(a) ==
  [query |-> a.query, collection |-> a.collection, type |-> a.type, author |-> a.author,
   keywords |-> IF Truthy(a.keywords) /\ a.keywords.t = "array"
                  THEN a.keywords ELSE JsUndefined,
   page |-> Num(pageOf(a.page)), size |-> Num(sizeOf(a.size)),
   sortBy |-> a.sortBy, sortOrder |-> a.sortOrder,
   releaseDateFrom |-> a.releaseDateFrom, releaseDateTo |-> a.releaseDateTo]

\* the client's searchStudies up to its endpoint
StudiesQuery(params) ==
  LET q1 == AppendFilters(<<>>, <<"query", "collection", "type", "author">>, params)
      q2 == AppendKeywords(q1, params.keywords)
      q3 == AppendIfDefined(AppendIfDefined(q2, "page", params.page), "size", params.size)
  IN AppendFilters(q3, <<"sortBy", "sortOrder", "releaseDateFrom", "releaseDateTo">>,
                   params)

\* the client's getCollectionStudies: `{collection: collectionKey, page, size}`
collectionSearchParams(collectionKey, page, size) ==
  [query |-> JsUndefined, collection |-> collectionKey, type |-> JsUndefined,
   author |-> JsUndefined, keywords |-> JsUndefined,
   page |-> Num(page), size |-> Num(size),
   sortBy |-> JsUndefined, sortOrder |-> JsUndefined,
   releaseDateFrom |-> JsUndefined, releaseDateTo |-> JsUndefined]

\* the handler's searchParams of a file search
fileSearchParams(a) ==
  [accno |-> a.accno, path |-> a.path, name |-> a.name, type |-> a.type,
   minSize |-> IF TruthyNumber(a.minSize) THEN a.minSize ELSE NotSupplied,
   maxSize |-> IF TruthyNumber(a.maxSize) THEN a.maxSize ELSE NotSupplied]

\* the client's searchFiles up to its endpoint
FilesQuery(params) ==
  AppendIfDefined(
    AppendIfDefined(AppendFilters(<<>>, <<"accno", "path", "name", "type">>, params),
                    "minSize", params.minSize),
    "maxSize", params.maxSize)

NoQuery == [sent |-> FALSE, endpoint |-> "", params |-> <<>>]
Query(endpoint, params) == [sent |-> TRUE, endpoint |-> endpoint, params |-> params]
\* the handler threw before any request was built
Refused == [sent |-> FALSE, endpoint |-> "refused", params |-> <<>>]
NoQueryArgs == [tool |-> "none"]

(***************************************************************************)
(* Init.                                                                   *)
(***************************************************************************)
PipelineInit ==
  /\ authToken = NoMsg
  /\ pc = "idle"
  /\ tool = "none"
  /\ args = NoArgs
  /\ calls = <<>>
  /\ results = <<>>
  /\ settled = <<>>
  /\ ret = NoRet
  /\ payload = NoPayload
  /\ reply = NoReply

QueryIdle ==
  /\ qIn = NoQueryArgs
  /\ qOut = NoQuery

ClassifyIdle ==
  /\ clIn = JsUndefined
  /\ clOut = FALSE
  /\ clPc = "off"
  /\ QueryIdle

Init == PipelineInit /\ ClassifyIdle

\* a handler begins: the invocation's records start empty
Begin(t, a) ==
  /\ pc = "idle"
  /\ tool' = t
  /\ args' = a
  /\ UNCHANGED classifyVars

\* a handler ends with payload p, having made the calls cs
Finish(p, cs, r) ==
  /\ pc' = "done"
  /\ payload' = p
  /\ reply' = CallToolReply(tool', p)
  /\ calls' = cs
  /\ ret' = r
  /\ UNCHANGED <<authToken, results, settled>>

\* a handler suspends on its fetch
Suspend(where, cs) ==
  /\ pc' = where
  /\ payload' = NoPayload
  /\ reply' = NoReply
  /\ calls' = cs
  /\ ret' = NoRet
  /\ UNCHANGED <<authToken, results, settled>>

\* the fetch of the last call settles with outcome o
LastSettled(o) ==
  [calls EXCEPT ![Len(calls)] = Settle(calls[Len(calls)], o, makeRequest(o))]

Resumes(t, where) ==
  /\ pc = where
  /\ tool = t
  /\ UNCHANGED <<tool, args, classifyVars>>

ArgAccnoInputs ==
  {Str(AccA), Str(AccB), Str(AccBad), Str(<<>>), JsNumber, JsUndefined}

AccnoMissing(a) == ~Truthy(a.accno) \/ ~IsString(a.accno)
AccnoRequired == <<"Study accession number is ", "required", " and must be a string">>

(***************************************************************************)
(* BioStudiesHandlers.getStudyDetails                                      *)
(***************************************************************************)
MaxFilesShown == 10
MaxSubsectionsShown == 5

\* a plausible slip: the "more files" line counts from the wrong end
SectionFilesOffByOne(study) ==
  [shown |-> SubSeq(study.files, 1, Min2(Len(study.files), MaxFilesShown)),
   more |-> IF Len(study.files) >= MaxFilesShown
              THEN Len(study.files) - MaxFilesShown + 1 ELSE 0]

\* `study.section.files.slice(0, 10)` and the "... and N more files" line
SectionFiles(study) ==
  [shown |-> SubSeq(study.files, 1, Min2(Len(study.files), MaxFilesShown)),
   more |-> IF Len(study.files) > MaxFilesShown
              THEN Len(study.files) - MaxFilesShown ELSE 0]

\* `study.section.subsections.slice(0, 5)`: a line for each that has a type
SectionSubsections(study) ==
  [shown |-> SelectSeq([i \in 1..Min2(Len(study.subsections), MaxSubsectionsShown) |-> i],
                       LAMBDA i : study.subsections[i].typed),
   more |-> IF Len(study.subsections) > MaxSubsectionsShown
              THEN Len(study.subsections) - MaxSubsectionsShown ELSE 0]

\* the lines under "Study Attributes": every attribute but the title
AttributeLines(attributes) ==
  Len(SelectSeq(attributes, LAMBDA name : name # "Title"))

\* the blocks of the details view, each written when its `if` holds
StudyBlocks(study) ==
  (IF Len(study.attributes) > 0
     THEN {Block("Study Attributes", AttributeLines(study.attributes))} ELSE {})
  \cup (IF Len(study.files) > 0
          THEN {Block("Associated Files", Len(SectionFiles(study).shown))} ELSE {})
  \cup (IF study.authors > 0 THEN {Block("Authors", study.authors)} ELSE {})
  \cup (IF study.views > 0 \/ study.downloads > 0
          THEN {Block("Statistics", (IF study.views > 0 THEN 1 ELSE 0)
                                      + (IF study.downloads > 0 THEN 1 ELSE 0))}
          ELSE {})

RenderStudyDetails(a, result) ==
  IF ErrorTruthy(result)
    THEN ErrorText("Error retrieving study", JsToString(a.accno), result.error)
    ELSE IF ~ResultDataTruthy(result)
      THEN Text("Study not found", JsToString(a.accno))
      ELSE IF result.data.k = "text"
        \* a string has none of the fields
        THEN StudyView(JsToString(a.accno), NoDetails)
        ELSE IF ~result.data.subsectionsIsArray
          THEN Thrown(<<"study.section.subsections.slice(...).forEach is not a function">>)
          ELSE StudyView(JsToString(a.accno),
                         Details(SectionFiles(result.data).shown,
                                 SectionFiles(result.data).more,
                                 SectionSubsections(result.data).shown,
                                 SectionSubsections(result.data).more,
                                 StudyBlocks(result.data)))

GetStudyDetails(a) ==
  /\ Begin("getStudyDetails", a)
  /\ IF ~a.present
       THEN Finish(ReadOfUndefined("accno"), <<>>, NoRet)
     ELSE IF AccnoMissing(a)
       THEN Finish(Thrown(AccnoRequired), <<>>, NoRet)
       ELSE LET c == clientGetStudyDetails(a.accno, authToken)
            IN IF c.state = "returned"
                 THEN Finish(RenderStudyDetails(a, c.res), <<c>>, Ret(c.res, NoValidation, NoBulk))
                 ELSE Suspend("await", <<c>>)

\* a plausible slip: a failed request is issued a second time
GetStudyDetailsRetries(o) ==
  /\ Resumes("getStudyDetails", "await")
  /\ LET cs == LastSettled(o)
         result == cs[Len(cs)].res
     IN IF result.hasError /\ Len(cs) < 2
          THEN Suspend("await", Append(cs, clientGetStudyDetails(args.accno, authToken)))
          ELSE Finish(RenderStudyDetails(args, result), cs, Ret(result, NoValidation, NoBulk))

GetStudyDetailsResume(o) ==
  /\ Resumes("getStudyDetails", "await")
  /\ LET cs == LastSettled(o)
         result == cs[Len(cs)].res
     IN Finish(RenderStudyDetails(args, result), cs, Ret(result, NoValidation, NoBulk))

(***************************************************************************)
(* BioStudiesHandlers.getStudyLinks                                        *)
(***************************************************************************)
RenderStudyLinks(a, result) ==
  IF ErrorTruthy(result)
    THEN ErrorText("Error retrieving links for study", JsToString(a.accno), result.error)
    ELSE IF ~ResultDataTruthy(result)
      THEN Text("No external links found for study", JsToString(a.accno))
      ELSE IF result.data.k = "text"
        \* links.map is not a function
        THEN Thrown(<<"links.map is not a function">>)
        ELSE Text("External links for study", JsToString(a.accno))

GetStudyLinks(a) ==
  /\ Begin("getStudyLinks", a)
  /\ IF AccnoMissing(a)
       THEN Finish(Thrown(AccnoRequired), <<>>, NoRet)
       ELSE LET c == clientGetStudyLinks(a.accno, authToken)
            IN IF c.state = "returned"
                 THEN Finish(RenderStudyLinks(a, c.res), <<c>>, Ret(c.res, NoValidation, NoBulk))
                 ELSE Suspend("await", <<c>>)

GetStudyLinksResume(o) ==
  /\ Resumes("getStudyLinks", "await")
  /\ LET cs == LastSettled(o)
         result == cs[Len(cs)].res
     IN Finish(RenderStudyLinks(args, result), cs, Ret(result, NoValidation, NoBulk))


(***************************************************************************)
(* BioStudiesHandlers.getStudyFiles and extractFilesFromStudyMetadata      *)
(***************************************************************************)
RenderStudyFiles(a, result) ==
  IF ErrorTruthy(result)
    THEN ErrorText("Error retrieving files for study", JsToString(a.accno), result.error)
    ELSE IF ~ResultDataTruthy(result)
      THEN Text("No files found for study", JsToString(a.accno))
      ELSE IF result.data.k = "text"
        THEN Thrown(<<"files.map is not a function">>)
        ELSE Text("Files in study", JsToString(a.accno))

\* the 404 branch of the handler is taken
FilesUnavailable(result) == ErrorTruthy(result) /\ result.status = 404

GetStudyFiles(a) ==
  /\ Begin("getStudyFiles", a)
  /\ IF AccnoMissing(a)
       THEN Finish(Thrown(AccnoRequired), <<>>, NoRet)
       ELSE LET c == clientGetStudyFiles(a.accno, authToken)
            IN IF c.state = "returned"
                 THEN Finish(RenderStudyFiles(a, c.res), <<c>>, Ret(c.res, NoValidation, NoBulk))
                 ELSE Suspend("await", <<c>>)

RECURSIVE SubsectionFilesLastFirst(_)
\* a plausible slip: the subsections are walked from the last to the first
SubsectionFilesLastFirst(subsections) ==
  IF subsections = <<>> THEN <<>>
  ELSE SubsectionFilesLastFirst(Tail(subsections)) \o Head(subsections).files

RECURSIVE SubsectionFiles(_)
\* `study.section.subsections.forEach(subsection => push(...subsection.files))`
SubsectionFiles(subsections) ==
  IF subsections = <<>> THEN <<>>
  ELSE Head(subsections).files \o SubsectionFiles(Tail(subsections))

\* a plausible slip: the walk also collects the files two levels down
ExtractedFilesAllLevels(study) ==
  IF study.k # "object" THEN <<>>
  ELSE study.files \o SubsectionFiles(study.subsections)
         \o SubsectionFiles([i \in 1..Len(study.subsections) |->
                               [files |-> study.subsections[i].deeper,
                                deeper |-> <<>>, typed |-> TRUE]])

\* the files collected from the section and from its subsections; a body
\* that is a string has no `section`
extractedFiles(study) ==
  IF study.k # "object" THEN <<>>
  ELSE study.files \o SubsectionFiles(study.subsections)

\* the text of extractFilesFromStudyMetadata once its lookup has returned;
\* whatever is thrown while the tree is read is caught and rendered
RenderExtractedFiles(accno, studyResult) ==
  IF ErrorTruthy(studyResult)
    THEN Content(FALSE, "Files API Unavailable (no metadata)", JsToString(accno),
                 studyResult.error, <<>>, NoBulk)
    ELSE IF ~ResultDataTruthy(studyResult)
      THEN Text("Study not found", JsToString(accno))
      ELSE IF ~studyResult.data.subsectionsIsArray
        THEN Content(FALSE, "Files API Unavailable (extraction error)", JsToString(accno),
                     <<"study.section.subsections.forEach is not a function">>,
                     <<>>, NoBulk)
        ELSE IF extractedFiles(studyResult.data) = <<>>
          THEN Text("Files (via metadata extraction): no files found", JsToString(accno))
          ELSE Listing("Files (via metadata extraction)", JsToString(accno),
                       extractedFiles(studyResult.data))

\* the files request settles: the handler renders, or on a 404 goes on to the
\* study-details lookup of extractFilesFromStudyMetadata
GetStudyFilesResume(o) ==
  /\ Resumes("getStudyFiles", "await")
  /\ LET cs == LastSettled(o)
         result == cs[Len(cs)].res
     IN IF FilesUnavailable(result)
          THEN LET c == clientGetStudyDetails(args.accno, authToken)
               IN IF c.state = "returned"
                    THEN Finish(RenderExtractedFiles(args.accno, c.res),
                                Append(cs, c), Ret(result, NoValidation, NoBulk))
                    ELSE Suspend("awaitLookup", Append(cs, c))
          ELSE Finish(RenderStudyFiles(args, result), cs, Ret(result, NoValidation, NoBulk))

ExtractFilesResume(o) ==
  /\ Resumes("getStudyFiles", "awaitLookup")
  /\ LET cs == LastSettled(o)
         studyResult == cs[Len(cs)].res
     IN Finish(RenderExtractedFiles(args.accno, studyResult), cs,
               Ret(cs[1].res, NoValidation, NoBulk))

(***************************************************************************)
(* validateStudyAccession: handler and client method                       *)
(***************************************************************************)
RenderValidation(a, validation) ==
  IF ~validation.isValid
    THEN Text("Invalid accession number format", JsToString(a.accno))
    ELSE IF ~validation.exists
      THEN Text("Valid format but study not found", JsToString(a.accno))
      ELSE Text("Valid study accession", JsToString(a.accno))

\* a plausible slip: only a 404 counts as not existing
ExistsUnlessNotFound(studyResult) == studyResult.status # 404

\* a plausible slip: a lookup without error counts as existing
ExistsWheneverAnswered(studyResult) == ~ErrorTruthy(studyResult)

\* `!studyResult.error && !!studyResult.data`
Exists(studyResult) == ~ErrorTruthy(studyResult) /\ ResultDataTruthy(studyResult)

ValidateStudyAccession(a) ==
  /\ Begin("validateStudyAccession", a)
  /\ IF ~a.present
       THEN Finish(ReadOfUndefined("accno"), <<>>, NoRet)
     ELSE IF AccnoMissing(a)
       THEN Finish(Thrown(<<"Accession number is ", "required", " and must be a string">>),
                   <<>>, NoRet)
       ELSE IF ~isValidAccessionNumber(a.accno)
         THEN LET v == Validation(FALSE, FALSE)
              IN Finish(RenderValidation(a, v), <<>>, Ret(ApiData(DataObject, 200), v, NoBulk))
         ELSE LET c == clientGetStudyDetails(a.accno, authToken)
              IN IF c.state = "returned"
                   THEN LET v == Validation(TRUE, Exists(c.res))
                        IN Finish(RenderValidation(a, v), <<c>>,
                                  Ret(ApiData(DataObject, 200), v, NoBulk))
                   ELSE Suspend("await", <<c>>)

ValidateStudyAccessionResume(o) ==
  /\ Resumes("validateStudyAccession", "await")
  /\ LET cs == LastSettled(o)
         v == Validation(TRUE, Exists(cs[Len(cs)].res))
     IN Finish(RenderValidation(args, v), cs, Ret(ApiData(DataObject, 200), v, NoBulk))

(***************************************************************************)
(* searchStudies and provideSearchAlternatives                             *)
(***************************************************************************)
\* getCollectionSuggestions reads an object literal: the key "constructor"
\* finds Object.prototype.constructor, a function of length 1 without forEach
provideSearchAlternatives(a) ==
  IF ~Truthy(a.collection)
    THEN Text("Search Currently Unavailable", NoMsg)
    ELSE IF ~IsString(a.collection)
      THEN Thrown(<<"searchParams.collection.toLowerCase is not a function">>)
      ELSE IF toLowerCase(a.collection.s) = KeyConstructor
        THEN Thrown(<<"suggestions.forEach is not a function">>)
        ELSE Content(FALSE, "Search Currently Unavailable", NoMsg, NoMsg,
                     suggestions(toLowerCase(a.collection.s)), NoBulk)

\* a plausible slip: a full page does not count, only the page index does
PaginationByPageOnly(page, size, response) ==
  IF page > 0
    THEN PageTrailer(page + 1, response.hits, response.totalHits)
    ELSE IF response.hits < response.totalHits
      THEN FirstTrailer(response.hits, response.totalHits)
      ELSE NoTrailer

\* `page > 0 || studies.length >= size ? "Page ..." :
\*    studies.length < response.totalHits ? "Showing first ..." : ""`;
\* searchStudies reads the page of the response, getCollectionStudies the
\* page it asked for
pagination(page, size, response) ==
  IF page > 0 \/ response.hits >= size
    THEN PageTrailer(page + 1, response.hits, response.totalHits)
    ELSE IF response.hits < response.totalHits
      THEN FirstTrailer(response.hits, response.totalHits)
      ELSE NoTrailer

RenderSearch(a, result) ==
  IF ErrorTruthy(result) /\ result.status = 404
    THEN provideSearchAlternatives(a)
    ELSE IF ErrorTruthy(result)
      THEN ErrorText("Error searching BioStudies", NoMsg, result.error)
      ELSE IF ~ResultDataTruthy(result)
        THEN Text("No studies found matching the search criteria", NoMsg)
        ELSE IF ~result.data.hasHits
          THEN Thrown(<<"Cannot read properties of undefined (reading 'length')">>)
          ELSE IF result.data.hits = 0
            THEN Text("No studies found matching the search criteria", NoMsg)
            ELSE Hits("Found studies", NoMsg,
                      pagination(result.data.page, sizeOf(a.size), result.data))

CollectionInputs ==
  {JsUndefined, JsNumber, Str(KeyArrayexpress), Str(<<"E","M","P","I","A","R">>),
   Str(<<"o","t","h","e","r">>), Str(KeyConstructor)}
QueryInputs == {JsUndefined, Str(<<"q">>)}
\* page and size as the caller gives them
PagingInputs ==
  { <<NotSupplied, NotSupplied>>, <<Num(0), Num(0)>>, <<Num(3), Num(50)>>,
    <<Num(1), Num(100)>>, <<NotSupplied, Num(101)>>, <<Num(2), Num(500)>>,
    <<NumericString(4), NumericString(500)>>, <<NaN, NaN>>, <<Num(-1), Num(-1)>>,
    <<Num(-1), NotSupplied>> }

SearchStudies(a) ==
  /\ Begin("searchStudies", a)
  /\ IF ~Truthy(a.query) /\ ~Truthy(a.collection)
       THEN Finish(Thrown(<<"At least one search parameter (query, collection, or author) is ", "required">>),
                   <<>>, NoRet)
       ELSE Suspend("await",
                    <<clientSearchStudies(pageOf(a.page), sizeOf(a.size), authToken)>>)

SearchStudiesResume(o) ==
  /\ Resumes("searchStudies", "await")
  /\ LET cs == LastSettled(o)
         result == cs[Len(cs)].res
     IN Finish(RenderSearch(args, result), cs, Ret(result, NoValidation, NoBulk))

(***************************************************************************)
(* listCollections and provideKnownCollections                             *)
(***************************************************************************)
provideKnownCollections ==
  Content(FALSE, "Known BioStudies Collections", NoMsg, NoMsg,
          SubSeq(suggestions(KeyArrayexpress), 1, 3) \o SubSeq(suggestions(KeyBioimages), 1, 3)
            \o SubSeq(suggestions(KeyEmpiar), 1, 3) \o SubSeq(suggestions(KeyBiostudies), 1, 3),
          NoBulk)

RenderCollections(result) ==
  IF ErrorTruthy(result) /\ result.status = 404
    THEN provideKnownCollections
    ELSE IF ErrorTruthy(result)
      THEN ErrorText("Error retrieving collections", NoMsg, result.error)
      ELSE IF ~ResultDataTruthy(result)
        THEN Text("No collections found", NoMsg)
        ELSE IF result.data.k = "text"
          THEN Thrown(<<"collections.map is not a function">>)
          ELSE Text("Available Collections", NoMsg)

ListCollections ==
  /\ Begin("listCollections", NoArgs)
  /\ Suspend("await", <<clientRequest("getCollections", authToken)>>)

ListCollectionsResume(o) ==
  /\ Resumes("listCollections", "await")
  /\ LET cs == LastSettled(o)
         result == cs[Len(cs)].res
     IN Finish(RenderCollections(result), cs, Ret(result, NoValidation, NoBulk))

(***************************************************************************)
(* getCollectionStudies                                                    *)
(***************************************************************************)
RenderCollectionStudies(a, result) ==
  IF ErrorTruthy(result)
    THEN ErrorText("Error retrieving studies from collection",
                   JsToString(a.collection), result.error)
    ELSE IF ~ResultDataTruthy(result)
      THEN Text("No studies found in collection", JsToString(a.collection))
      ELSE IF ~result.data.hasHits
        THEN Thrown(<<"Cannot read properties of undefined (reading 'length')">>)
        ELSE IF result.data.hits = 0
          THEN Text("No studies found in collection", JsToString(a.collection))
          ELSE Hits("Studies in collection", JsToString(a.collection),
                    pagination(pageOf(a.page), sizeOf(a.size), result.data))

GetCollectionStudies(a) ==
  /\ Begin("getCollectionStudies", a)
  /\ IF ~Truthy(a.collection) \/ ~IsString(a.collection)
       THEN Finish(Thrown(<<"Collection key is ", "required", " and must be a string">>),
                   <<>>, NoRet)
       ELSE Suspend("await",
                    <<clientSearchStudies(pageOf(a.page), sizeOf(a.size), authToken)>>)

GetCollectionStudiesResume(o) ==
  /\ Resumes("getCollectionStudies", "await")
  /\ LET cs == LastSettled(o)
         result == cs[Len(cs)].res
     IN Finish(RenderCollectionStudies(args, result), cs, Ret(result, NoValidation, NoBulk))

(***************************************************************************)
(* searchFiles                                                             *)
(***************************************************************************)
RenderSearchFiles(result) ==
  IF ErrorTruthy(result)
    THEN ErrorText("Error searching files", NoMsg, result.error)
    ELSE IF ~ResultDataTruthy(result)
      THEN Text("No files found matching the search criteria", NoMsg)
      ELSE IF result.data.k = "text"
        THEN Thrown(<<"Cannot read properties of undefined (reading 'length')">>)
        ELSE Text("Found files", NoMsg)

SearchFiles(a) ==
  /\ Begin("searchFiles", a)
  /\ IF ~Truthy(a.accno)
       THEN Finish(Thrown(<<"At least one search parameter (accno, name, or type) is ", "required">>),
                   <<>>, NoRet)
       ELSE Suspend("await", <<clientRequest("searchFiles", authToken)>>)

SearchFilesResume(o) ==
  /\ Resumes("searchFiles", "await")
  /\ LET cs == LastSettled(o)
         result == cs[Len(cs)].res
     IN Finish(RenderSearchFiles(result), cs, Ret(result, NoValidation, NoBulk))

(***************************************************************************)
(* authenticate: handler and client method                                 *)
(***************************************************************************)
RenderAuthenticate(result) ==
  IF ErrorTruthy(result)
    THEN ErrorText("Authentication failed", NoMsg, result.error)
    ELSE IF ~ResultDataTruthy(result)
      \* `token.user` of an undefined or null token
      THEN Thrown(<<"Cannot read properties of undefined (reading 'user')">>)
      ELSE Text("Authentication successful", NoMsg)

Authenticate(hasCreds) ==
  /\ Begin("authenticate", Args(JsUndefined, <<>>, FALSE, JsUndefined, JsUndefined, hasCreds))
  /\ IF ~hasCreds
       THEN Finish(Thrown(<<"Both login and password are ", "required", " for authentication">>),
                   <<>>, NoRet)
       ELSE Suspend("await", <<clientRequest("authenticate", authToken)>>)

\* a plausible slip: the token is assigned from whatever came back
TokenAssignedAlways(result, token) ==
  IF result.hasData THEN result.data.token ELSE NoMsg

\* a plausible slip: a token once established is kept
TokenKeptOnceSet(result, token) ==
  IF token = NoMsg /\ result.hasData /\ result.data.token # NoMsg
    THEN result.data.token
    ELSE token

\* `if (result.data?.token) this.authToken = result.data.token`: the token
\* field after authenticate has read `result`, `token` being its value before
TokenAfter(result, token) ==
  IF result.hasData /\ result.data.token # NoMsg
    THEN result.data.token
    ELSE token

AuthenticateResume(o) ==
  /\ pc = "await"
  /\ tool = "authenticate"
  /\ LET cs == LastSettled(o)
         result == cs[Len(cs)].res
     IN /\ pc' = "done"
        /\ payload' = RenderAuthenticate(result)
        /\ reply' = NoReply
        /\ calls' = cs
        /\ ret' = Ret(result, NoValidation, NoBulk)
        /\ authToken' = TokenAfter(result, authToken)
  /\ UNCHANGED <<tool, args, results, settled, classifyVars>>

\* clearAuthentication()
ClearAuthentication ==
  /\ pc = "idle"
  /\ authToken # NoMsg
  /\ authToken' = NoMsg
  /\ UNCHANGED <<pc, tool, args, calls, results, settled, ret, payload, reply, classifyVars>>


\* setAuthToken(token)
ManualTokens == {<<"manual">>}
SetAuthToken(t) ==
  /\ pc = "idle"
  /\ authToken # t
  /\ authToken' = t
  /\ UNCHANGED <<pc, tool, args, calls, results, settled, ret, payload, reply, classifyVars>>

(***************************************************************************)
(* batchGetStudies: handler and client method.                             *)
(*                                                                         *)
(* The client maps every accession to an async function and awaits         *)
(* Promise.allSettled of them.  A member whose accession is ill-formed     *)
(* returns without a fetch, so its promise is settled before any response  *)
(* can arrive; the others settle one by one, in any order, as the network  *)
(* answers.                                                                *)
(***************************************************************************)
Pending == [status |-> "pending", reason |-> NoMsg]
Fulfilled == [status |-> "fulfilled", reason |-> NoMsg]
Rejected(m) == [status |-> "rejected", reason |-> m]

\* the async function of one member, once getStudyDetails has returned res:
\* `if (result.error) throw new Error(result.error); return accno`
MemberPromise(res) ==
  IF ErrorTruthy(res) THEN Rejected(res.error) ELSE Fulfilled

FailedEntry(accno, reason) ==
  [accno |-> accno, error |-> IF reason # NoMsg THEN reason ELSE <<"Unknown error">>]

RECURSIVE ForEachResult(_, _, _, _, _)
\* results.forEach((result, index) => ...), from index i on
ForEachResult(accessions, rs, i, successful, failed) ==
  IF i > Len(rs)
    THEN Bulk(successful, failed, Len(accessions))
    ELSE IF rs[i].status = "fulfilled"
      THEN ForEachResult(accessions, rs, i + 1, Append(successful, accessions[i]), failed)
      ELSE ForEachResult(accessions, rs, i + 1, successful,
                         Append(failed, FailedEntry(accessions[i], rs[i].reason)))

RECURSIVE InCompletionOrder(_, _, _, _, _)
\* a plausible slip: the lists are filled as the members settle
InCompletionOrder(accessions, rs, order, successful, failed) ==
  IF order = <<>>
    THEN Bulk(successful, failed, Len(accessions))
    ELSE LET i == Head(order)
         IN IF rs[i].status = "fulfilled"
              THEN InCompletionOrder(accessions, rs, Tail(order),
                                     Append(successful, accessions[i]), failed)
              ELSE InCompletionOrder(accessions, rs, Tail(order), successful,
                                     Append(failed, FailedEntry(accessions[i], rs[i].reason)))

AssembleInCompletionOrder(accessions, rs, order) ==
  InCompletionOrder(accessions, rs, order, <<>>, <<>>)

\* a plausible slip: the counts are taken before the lists are filled
AssembleStaleCounts(accessions, rs, order) ==
  [ForEachResult(accessions, rs, 1, <<>>, <<>>) EXCEPT !.failureCount = 0]

\* the BulkOperationResult built from the settled promises (order: the order
\* in which they settled, which the code does not look at)
AssembleBulk(accessions, rs, order) ==
  ForEachResult(accessions, rs, 1, <<>>, <<>>)

\* a plausible slip: a batch in which nothing succeeded is flagged as an error
RenderBatchFlagsAllFailed(result) ==
  IF ErrorTruthy(result.api)
    THEN ErrorText("Error in batch operation", NoMsg, result.api.error)
    ELSE Content(result.bulk.successCount = 0, "Batch Processing Results", NoMsg, NoMsg,
                 <<>>, result.bulk)

\* the text of the batch tool: the summary, or the error of the client method
RenderBatch(result) ==
  IF ErrorTruthy(result.api)
    THEN ErrorText("Error in batch operation", NoMsg, result.api.error)
    ELSE Content(FALSE, "Batch Processing Results", NoMsg, NoMsg, <<>>, result.bulk)

\* a plausible slip: the handler leaves the upper bound to the client
HandlerGuardWithoutUpperBound(a) ==
  IF ~a.isArray THEN "throw"
  ELSE IF Len(a.accessions) = 0 THEN "empty"
  ELSE "dispatch"

\* the guards of the handler, in order
BatchGuard(a) ==
  IF ~a.present THEN "undefined"
  ELSE IF ~a.isArray THEN "throw"
  ELSE IF Len(a.accessions) = 0 THEN "empty"
  ELSE IF Len(a.accessions) > HandlerMaxAccessions THEN "tooMany"
  ELSE "dispatch"

\* a plausible slip: the client method does not check the upper bound
ClientGuardWithoutUpperBound(accessions) ==
  IF Len(accessions) = 0 THEN "empty" ELSE "launch"

\* the guards of the client method, in order
ClientBatchGuard(accessions) ==
  IF Len(accessions) = 0 THEN "empty"
  ELSE IF Len(accessions) > ClientMaxAccessions THEN "tooMany"
  ELSE "launch"

\* what the client method returns without launching anything
ClientBatchUpfront(accessions) ==
  IF ClientBatchGuard(accessions) = "empty"
    THEN Ret(ApiData(DataObject, 200), NoValidation, Bulk(<<>>, <<>>, 0))
    ELSE Ret(ApiError(<<"Maximum 50 accessions can be processed at once">>, 400),
             NoValidation, NoBulk)

MemberAccessions == {Str(AccA), Str(AccB), Str(AccBad), JsNull}

\* a batch at the size n: well-formed at both ends, ill-formed between
LongBatch(n) ==
  [i \in 1..n |-> IF i = 1 \/ i = n THEN Str(AccA) ELSE Str(AccBad)]

BatchInputs ==
  UNION {[1..n -> MemberAccessions] : n \in 0..MaxBatch}
    \cup {LongBatch(ClientMaxAccessions), LongBatch(ClientMaxAccessions + 1)}

\* the batches given to the client method directly: the sizes at its guards
ClientBatchInputs ==
  {<<>>, <<Str(AccA)>>, <<Str(AccBad)>>, <<Str(AccB), Str(AccA)>>,
   LongBatch(ClientMaxAccessions), LongBatch(ClientMaxAccessions + 1)}

\* accessions.map(async accno => ...): every member calls getStudyDetails
Launch(accessions) ==
  LET cs == [i \in 1..Len(accessions) |-> clientGetStudyDetails(accessions[i], authToken)]
      rs == [i \in 1..Len(accessions) |->
               IF cs[i].state = "returned" THEN MemberPromise(cs[i].res) ELSE Pending]
  IN /\ calls' = cs
     /\ results' = rs
     /\ settled' = SelectSeq([i \in 1..Len(accessions) |-> i],
                             LAMBDA i : cs[i].state = "returned")
     /\ pc' = "awaitAll"
     /\ ret' = NoRet
     /\ payload' = NoPayload
     /\ reply' = NoReply
     /\ UNCHANGED authToken

\* the handler: its guards, then the client method
BatchGetStudies(a) ==
  /\ Begin("batchGetStudies", a)
  /\ CASE BatchGuard(a) = "undefined" ->
            Finish(ReadOfUndefined("accessions"), <<>>, NoRet)
       [] BatchGuard(a) = "throw" ->
            Finish(Thrown(<<"Accessions parameter is ", "required", " and must be an array of strings">>),
                   <<>>, NoRet)
       [] BatchGuard(a) = "empty" ->
            Finish(Text("No accession numbers provided", NoMsg), <<>>, NoRet)
       [] BatchGuard(a) = "tooMany" ->
            Finish(Text("Maximum 50 studies can be processed at once", NoMsg), <<>>, NoRet)
       [] OTHER ->
            IF ClientBatchGuard(a.accessions) = "launch"
              THEN Launch(a.accessions)
              ELSE LET r == ClientBatchUpfront(a.accessions)
                   IN Finish(RenderBatch(r), <<>>, r)

\* the client method called on its own
ClientBatchGetStudies(accessions) ==
  /\ Begin("client.batchGetStudies", BatchArgs(accessions))
  /\ IF ClientBatchGuard(accessions) = "launch"
       THEN Launch(accessions)
       ELSE Finish(NoPayload, <<>>, ClientBatchUpfront(accessions))

\* the fetch of member i settles
MemberSettles(i, o) ==
  /\ pc = "awaitAll"
  /\ i \in 1..Len(calls)
  /\ calls[i].state = "pending"
  /\ LET res == makeRequest(o)
     IN /\ calls' = [calls EXCEPT ![i] = Settle(calls[i], o, res)]
        /\ results' = [results EXCEPT ![i] = MemberPromise(res)]
  /\ settled' = Append(settled, i)
  /\ UNCHANGED <<authToken, pc, tool, args, ret, payload, reply, classifyVars>>

\* a plausible slip: the first member to settle resolves the batch
AssembleAtFirstSettle ==
  /\ pc = "awaitAll"
  /\ \E i \in 1..Len(results) : results[i].status # "pending"
  /\ LET r == Ret(ApiData(DataObject, 200), NoValidation,
                  AssembleBulk(args.accessions, results, settled))
     IN /\ ret' = r
        /\ payload' = IF tool = "batchGetStudies" THEN RenderBatch(r) ELSE NoPayload
        /\ reply' = NoReply
  /\ pc' = "done"
  /\ UNCHANGED <<authToken, tool, args, calls, results, settled, classifyVars>>

\* Promise.allSettled resolves: the result is assembled and, under the
\* handler, rendered
BatchAssemble ==
  /\ pc = "awaitAll"
  /\ \A i \in 1..Len(results) : results[i].status # "pending"
  /\ LET r == Ret(ApiData(DataObject, 200), NoValidation,
                  AssembleBulk(args.accessions, results, settled))
     IN /\ ret' = r
        /\ payload' = IF tool = "batchGetStudies" THEN RenderBatch(r) ELSE NoPayload
        /\ reply' = CallToolReply(tool, IF tool = "batchGetStudies" THEN RenderBatch(r)
                                                                   ELSE NoPayload)
  /\ pc' = "done"
  /\ UNCHANGED <<authToken, tool, args, calls, results, settled, classifyVars>>

\* the `default` of the switch: a tool name that is not routed
CallUnknownTool ==
  /\ Begin("unknown", NoArgs)
  /\ pc' = "done"
  /\ payload' = NoPayload
  /\ reply' = McpError("MethodNotFound", <<"Unknown tool">>)
  /\ calls' = <<>>
  /\ ret' = NoRet
  /\ UNCHANGED <<authToken, results, settled>>

(***************************************************************************)
(* The invocation has returned; the next one may begin.                    *)
(***************************************************************************)
Return ==
  /\ pc = "done"
  /\ pc' = "idle"
  /\ tool' = "none"
  /\ args' = NoArgs
  /\ calls' = <<>>
  /\ results' = <<>>
  /\ settled' = <<>>
  /\ ret' = NoRet
  /\ payload' = NoPayload
  /\ reply' = NoReply
  /\ UNCHANGED <<authToken, classifyVars>>

Next ==
  \/ \E v \in ArgAccnoInputs : GetStudyDetails(AccnoArgs(v))
  \/ \E o \in NetOutcomes \cup DetailOutcomes : GetStudyDetailsResume(o)
  \/ \E v \in ArgAccnoInputs : GetStudyLinks(AccnoArgs(v))
  \/ \E o \in NetOutcomes : GetStudyLinksResume(o)
  \/ \E v \in ArgAccnoInputs : GetStudyFiles(AccnoArgs(v))
  \/ \E o \in NetOutcomes : GetStudyFilesResume(o)
  \/ \E o \in NetOutcomes : ExtractFilesResume(o)
  \/ \E v \in ArgAccnoInputs : ValidateStudyAccession(AccnoArgs(v))
  \/ \E o \in NetOutcomes : ValidateStudyAccessionResume(o)
  \/ \E c \in CollectionInputs, q \in QueryInputs, pg \in PagingInputs :
       SearchStudies(Paged(SearchArgs(c, q), pg))
  \/ \E o \in NetOutcomes \cup SearchOutcomes : SearchStudiesResume(o)
  \/ ListCollections
  \/ \E o \in NetOutcomes : ListCollectionsResume(o)
  \/ \E c \in CollectionInputs, pg \in PagingInputs :
       GetCollectionStudies(Paged(SearchArgs(c, JsUndefined), pg))
  \/ \E o \in NetOutcomes \cup SearchOutcomes : GetCollectionStudiesResume(o)
  \/ \E v \in ArgAccnoInputs : SearchFiles(AccnoArgs(v))
  \/ \E o \in NetOutcomes : SearchFilesResume(o)
  \/ \E b \in BOOLEAN : Authenticate(b)
  \/ \E o \in NetOutcomes : AuthenticateResume(o)
  \/ ClearAuthentication
  \/ \E t \in ManualTokens : SetAuthToken(t)
  \/ \E a \in BatchInputs : BatchGetStudies(BatchArgs(a))
  \/ BatchGetStudies(NoArgs)
  \/ GetStudyDetails(ArgsAbsent)
  \/ ValidateStudyAccession(ArgsAbsent)
  \/ BatchGetStudies(ArgsAbsent)
  \/ CallUnknownTool
  \/ \E a \in ClientBatchInputs : ClientBatchGetStudies(a)
  \/ \E i \in 1..Len(calls), o \in BatchOutcomes : MemberSettles(i, o)
  \/ BatchAssemble
  \/ Return

Spec == Init /\ [][Next]_vars

(***************************************************************************)
(* Overlapping calls on one client.  Each call of a client method runs     *)
(* makeRequest up to its `await fetch` in one step (the headers are built  *)
(* there, from the token field as it is then), and its continuation in a   *)
(* later step; between the two, other calls may start and finish.  `calls` *)
(* holds the calls in the order they started, `settled` the order in which *)
(* their fetches finished.                                                 *)
(***************************************************************************)
MaxFlights == 3

\* the token the login service gives in answer to the i-th call
IssuedToken(i) == <<"tok", ToString(i)>>

FlightOutcomes(i) ==
  { Resp(200, TRUE, TRUE, Data("object", NoMsg, NoMsg, IssuedToken(i))),
    Resp(200, TRUE, TRUE, DataObject),
    Resp(401, TRUE, TRUE, DataWithMessage(UpstreamMsg)),
    Throw(TRUE, "TypeError", <<"fetch failed">>) }

FlightStarts(method) ==
  /\ Len(calls) < MaxFlights
  /\ calls' = Append(calls, clientRequest(method, authToken))
  /\ UNCHANGED <<authToken, pc, tool, args, results, settled, ret, payload, reply,
                 classifyVars>>

FlightSettles(i, o) ==
  /\ calls[i].state = "pending"
  /\ LET result == makeRequest(o)
     IN /\ calls' = [calls EXCEPT ![i] = Settle(@, o, result)]
        /\ authToken' = IF calls[i].method = "authenticate"
                          THEN TokenAfter(result, authToken)
                          ELSE authToken
  /\ settled' = Append(settled, i)
  /\ UNCHANGED <<pc, tool, args, results, ret, payload, reply, classifyVars>>

NextOverlap ==
  \/ FlightStarts("authenticate")
  \/ FlightStarts("getCollections")
  \/ \E i \in 1..Len(calls) : \E o \in FlightOutcomes(i) : FlightSettles(i, o)

SpecOverlap == Init /\ [][NextOverlap]_vars

(***************************************************************************)
(* The batch fetch of the client on its own, with its scheduling: every    *)
(* fetch settles (each carries a 30-second timeout signal), and a promise  *)
(* that can resolve does.                                                  *)
(***************************************************************************)
BatchRuns ==
  ClientBatchInputs \cup {<<Str(AccA), Str(AccBad), Str(AccB)>>,
                          <<Str(AccA), Str(AccA), Str(AccB)>>}

SomeMemberSettles == \E i \in 1..Len(calls), o \in BatchOutcomes : MemberSettles(i, o)

NextBatch ==
  \/ \E a \in BatchRuns : ClientBatchGetStudies(a)
  \/ SomeMemberSettles
  \/ BatchAssemble
  \/ Return

SpecBatch ==
  /\ Init
  /\ [][NextBatch]_vars
  /\ WF_vars(SomeMemberSettles)
  /\ WF_vars(BatchAssemble)

(***************************************************************************)
(* The accession validator on its own: one input, one call.                *)
(***************************************************************************)
DigitRuns == UNION {[1..n -> {"0", "7"}] : n \in 0..MaxDigits}

Heads ==
  { <<>>,
    <<"S","-","B","S","S","T">>, <<"s","-","b","s","s","t">>, <<"S","-","b","S","s","T">>,
    <<"S","-","B","S","S">>, <<"S","B","S","S","T">>, <<"X","S","-","B","S","S","T">>,
    <<"LONG_S","-","B","S","S","T">>,
    <<"S","-","B","I","A","D">>, <<"s","-","B","i","a","d">>, <<"S","-","B","I","A","D","-">>,
    <<"S","-","B","S","M","S">>, <<"s","-","b","s","m","s">>,
    <<"E","M","P","I","A","R","-">>, <<"e","m","p","i","a","r","-">>,
    <<"E","M","P","I","A","R">>, <<"E","M","P","I","A","R","-","-">>,
    <<"E","-","M","T","A","B","-">>, <<"e","-","m","t","a","b","-">>,
    <<"E","-","1","2","_","4","-">>, <<"E","-","M","T","A","-">>,
    <<"E","-","M","T","A","B","X","-">>, <<"E","-","M","-","A","B","-">>,
    <<"E","-","M","T","A","B">>, <<"E","M","T","A","B","-">>,
    <<"P","R","J","E","B">>, <<"P","R","J","D","A">>, <<"p","r","j","n","a">>,
    <<"P","R","J","X","B">>, <<"P","R","J","E","1">>, <<"P","R","J","E">>,
    <<"P","R","J","E","_">>, <<"P","R","J","E","B","B">> }

Tails == { <<>>, <<"NEWLINE">>, <<" ">>, <<"a">>, <<"-","1">> }

ClassifyInputs ==
  {Str(h \o d \o t) : h \in Heads, d \in DigitRuns, t \in Tails}
    \cup {Str(<<" ">> \o h \o <<"7">>) : h \in Heads}
    \cup {JsNull, JsUndefined, JsZero, JsNumber, JsArray, JsObject}

ClassifyInit ==
  /\ PipelineInit
  /\ clIn \in ClassifyInputs
  /\ clOut = FALSE
  /\ clPc = "start"
  /\ QueryIdle

Classify ==
  /\ clPc = "start"
  /\ clOut' = isValidAccessionNumber(clIn)
  /\ clPc' = "done"
  /\ UNCHANGED <<clIn, qIn, qOut, pipelineVars>>

ClassifyNext == Classify

SpecClassify == ClassifyInit /\ [][ClassifyNext]_vars

(***************************************************************************)
(* One search request on its own: the arguments, and the query string the  *)
(* handler and the client make of them.                                    *)
(***************************************************************************)
StudyFilters ==
  {"query", "collection", "type", "author", "sortBy", "sortOrder",
   "releaseDateFrom", "releaseDateTo"}
FileFilters == {"accno", "path", "name", "type"}

\* what a caller may put in a filter: nothing, null, the empty string, a
\* string, a number
FilterValues == {JsUndefined, JsNull, Str(<<>>), Str(<<"x">>), JsNumber}
KeywordValues ==
  {JsUndefined, JsNull, Str(<<"k">>), KeywordList(<<>>), KeywordList(<<Str(<<"k">>)>>),
   KeywordList(<<Str(<<"k">>), Str(<<>>)>>), KeywordList(<<Str(<<"k">>), JsNull>>)}
QueryPaging == {<<NotSupplied, NotSupplied>>, <<Num(2), Num(500)>>, <<NaN, NumericString(5)>>}
SizeValues == {NotSupplied, Num(0), Num(5), NaN, NumericString(5)}

\* one filter holds `v`, all the others hold `w`
StudySearchInputs ==
  { [g \in StudyFilters \cup {"tool", "keywords", "page", "size"} |->
       CASE g = "tool" -> "searchStudies"
         [] g = "keywords" -> kw
         [] g = "page" -> pg[1]
         [] g = "size" -> pg[2]
         [] g = f -> v
         [] OTHER -> w] :
      f \in StudyFilters, v \in FilterValues, w \in FilterValues,
      kw \in KeywordValues, pg \in QueryPaging }

FileSearchInputs ==
  { [g \in FileFilters \cup {"tool", "minSize", "maxSize"} |->
       CASE g = "tool" -> "searchFiles"
         [] g = "minSize" -> lo
         [] g = "maxSize" -> hi
         [] g = f -> v
         [] OTHER -> w] :
      f \in FileFilters, v \in FilterValues, w \in FilterValues,
      lo \in SizeValues, hi \in SizeValues }

CollectionStudiesInputs ==
  { [tool |-> "getCollectionStudies", collection |-> c, page |-> pg[1], size |-> pg[2]] :
      c \in FilterValues, pg \in QueryPaging }

QueryInit ==
  /\ PipelineInit
  /\ clIn = JsUndefined
  /\ clOut = FALSE
  /\ clPc = "off"
  /\ qIn \in StudySearchInputs \cup FileSearchInputs \cup CollectionStudiesInputs
  /\ qOut = NoQuery

\* the handler's searchStudies up to the client's fetch
BuildStudySearch ==
  /\ qIn.tool = "searchStudies"
  /\ qOut = NoQuery
  /\ qOut' = IF ~Truthy(qIn.query) /\ ~Truthy(qIn.collection) /\ ~Truthy(qIn.author)
               THEN Refused
               ELSE Query("/studies", StudiesQuery(studySearchParams(qIn)))
  /\ UNCHANGED <<qIn, clIn, clOut, clPc, pipelineVars>>

\* the handler's getCollectionStudies up to the client's fetch
BuildCollectionStudies ==
  /\ qIn.tool = "getCollectionStudies"
  /\ qOut = NoQuery
  /\ qOut' = IF ~Truthy(qIn.collection) \/ ~IsString(qIn.collection)
               THEN Refused
               ELSE Query("/studies",
                          StudiesQuery(collectionSearchParams(qIn.collection,
                                                              pageOf(qIn.page),
                                                              sizeOf(qIn.size))))
  /\ UNCHANGED <<qIn, clIn, clOut, clPc, pipelineVars>>

\* the handler's searchFiles up to the client's fetch
BuildFileSearch ==
  /\ qIn.tool = "searchFiles"
  /\ qOut = NoQuery
  /\ qOut' = IF ~Truthy(qIn.accno) /\ ~Truthy(qIn.name) /\ ~Truthy(qIn.type)
               THEN Refused
               ELSE Query("/files", FilesQuery(fileSearchParams(qIn)))
  /\ UNCHANGED <<qIn, clIn, clOut, clPc, pipelineVars>>

QueryNext ==
  \/ BuildStudySearch
  \/ BuildCollectionStudies
  \/ BuildFileSearch

SpecQuery == QueryInit /\ [][QueryNext]_vars


(***************************************************************************)
(* The accession families as the documentation states them: the whole      *)
(* string is a prefix, compared without regard to case, and then one or    *)
(* more digits.                                                            *)
(***************************************************************************)
SameLetter(c, u) ==
  c = u \/ \E i \in 1..26 : UpperSeq[i] = u /\ LowerSeq[i] = c
IsLetter(c) == c \in UpperLetters \cup LowerLetters
IsWordChar(c) == IsLetter(c) \/ c \in Digits \/ c = "_"
AllDigits(s) == s # <<>> /\ \A i \in 1..Len(s) : s[i] \in Digits
After(s, n) == SubSeq(s, n + 1, Len(s))
PrefixThenDigits(s, lit) ==
  /\ Len(s) > Len(lit)
  /\ \A i \in 1..Len(lit) : SameLetter(s[i], lit[i])
  /\ AllDigits(After(s, Len(lit)))

WellFormedAccession(s) ==
  \/ PrefixThenDigits(s, <<"S","-","B","S","S","T">>)
  \/ /\ Len(s) >= 8
     /\ SameLetter(s[1], "E") /\ s[2] = "-"
     /\ \A i \in 3..6 : IsWordChar(s[i])
     /\ s[7] = "-"
     /\ AllDigits(After(s, 7))
  \/ PrefixThenDigits(s, <<"E","M","P","I","A","R","-">>)
  \/ PrefixThenDigits(s, <<"S","-","B","I","A","D">>)
  \/ PrefixThenDigits(s, <<"S","-","B","S","M","S">>)
  \/ /\ Len(s) >= 6
     /\ \A i \in 1..3 : SameLetter(s[i], <<"P","R","J">>[i])
     /\ \E u \in {"E","D","N"} : SameLetter(s[4], u)
     /\ IsLetter(s[5])
     /\ AllDigits(After(s, 5))

WellFormedValue(v) == IsString(v) /\ WellFormedAccession(v.s)

(***************************************************************************)
(* Batch fetch: the claims.                                                *)
(***************************************************************************)
BatchTools == {"batchGetStudies", "client.batchGetStudies"}
\* a batch of 1..50 accessions has returned
BatchReturned ==
  /\ pc = "done"
  /\ tool \in BatchTools
  /\ args.isArray
  /\ Len(args.accessions) >= 1
  /\ Len(args.accessions) <= 50

RECURSIVE IsMerge(_, _, _)
\* acc is s and the accessions of f interleaved, each keeping its order
IsMerge(acc, s, f) ==
  IF acc = <<>>
    THEN s = <<>> /\ f = <<>>
    ELSE \/ s # <<>> /\ Head(s) = Head(acc) /\ IsMerge(Tail(acc), Tail(s), f)
         \/ f # <<>> /\ Head(f).accno = Head(acc) /\ IsMerge(Tail(acc), s, Tail(f))

\* C1: for every batch of 1..50 accessions and every combination of member
\* outcomes, total is the number of accessions, successCount and failureCount
\* are the lengths of the two lists and add up to total, and every input
\* position is in exactly one of the two lists.
C1_BatchResultCounts ==
  BatchReturned =>
    LET b == ret.bulk
    IN /\ b.total = Len(args.accessions)
       /\ b.successCount + b.failureCount = b.total
       /\ b.successCount = Len(b.successful)
       /\ b.failureCount = Len(b.failed)
       /\ IsMerge(args.accessions, b.successful, b.failed)

\* a batch of 50 with members in both lists
C1_Witness ==
  /\ BatchReturned
  /\ ret.bulk.total = 50
  /\ ret.bulk.successCount >= 1
  /\ ret.bulk.failureCount >= 1

PositionsWith(status) ==
  SelectSeq([i \in 1..Len(results) |-> i], LAMBDA i : results[i].status = status)

\* C2: the successful list and the failed list each keep the input order of
\* the accessions, in whatever order the member requests completed: each list
\* is the accessions at its positions, taken in increasing position.
C2_InputOrderKept ==
  BatchReturned =>
    LET ok == PositionsWith("fulfilled")
        bad == PositionsWith("rejected")
    IN /\ ret.bulk.successful = [k \in 1..Len(ok) |-> args.accessions[ok[k]]]
       /\ [k \in 1..Len(ret.bulk.failed) |-> ret.bulk.failed[k].accno]
            = [k \in 1..Len(bad) |-> args.accessions[bad[k]]]

\* two different accessions land in the same list although the later one
\* completed first
C2_Witness ==
  /\ BatchReturned
  /\ \E j, k \in 1..Len(settled) :
       /\ j < k
       /\ settled[j] > settled[k]
       /\ results[settled[j]].status = results[settled[k]].status
       /\ args.accessions[settled[j]] # args.accessions[settled[k]]
       /\ calls[settled[j]].sent /\ calls[settled[k]].sent

\* the ApiResponse of a member is a failure: it has an error field
MemberFailed(c) == c.res.hasError

\* C3: each member's outcome is collected independently: whichever members
\* fail and in whatever order they complete, no member is cancelled or
\* skipped (every well-formed member's request was issued and answered) and
\* every member is reported with its own outcome: a member that failed is in
\* the failed list with its own error, a member that succeeded is in the
\* successful list.
C3_OwnOutcome ==
  BatchReturned =>
    /\ Len(calls) = Len(args.accessions)
    /\ \A i \in 1..Len(calls) :
         /\ calls[i].state = "returned"
         /\ WellFormedValue(args.accessions[i]) => calls[i].sent
         /\ IF MemberFailed(calls[i])
              THEN results[i] = Rejected(calls[i].res.error)
              ELSE results[i] = Fulfilled
    /\ ret.bulk.failureCount = Cardinality({i \in 1..Len(calls) : MemberFailed(calls[i])})

\* C4: a batch tool call with 1..50 accessions always returns a payload that
\* is not error-flagged and shows every failed member inline with its error,
\* for every combination of member outcomes, also when every member fails.
C4_BatchNeverErrorFlagged ==
  (BatchReturned /\ tool = "batchGetStudies") =>
    /\ payload.kind = "content"
    /\ ~payload.isError
    /\ payload.bulk.total = Len(args.accessions)
    /\ \A i \in 1..Len(results) :
         results[i].status = "rejected" =>
           \E k \in 1..Len(payload.bulk.failed) :
             /\ payload.bulk.failed[k].accno = args.accessions[i]
             /\ payload.bulk.failed[k].error = results[i].reason

\* every member of a batch of at least two failed, one of them upstream
C4_Witness ==
  /\ BatchReturned
  /\ tool = "batchGetStudies"
  /\ payload.bulk.total >= 2
  /\ payload.bulk.successCount = 0
  /\ \E i \in 1..Len(calls) : calls[i].sent /\ calls[i].outcome.status = 404

\* C5: a batch tool call with 0 or with more than 50 accessions issues no
\* network call and does not call the client; it returns a fixed advisory
\* message that depends only on which bound was violated.
C5_HandlerCardinality ==
  (pc = "done" /\ tool = "batchGetStudies" /\ args.isArray) =>
    /\ Len(args.accessions) = 0 =>
         /\ calls = <<>> /\ ret = NoRet /\ results = <<>>
         /\ payload = Text("No accession numbers provided", NoMsg)
    /\ Len(args.accessions) > 50 =>
         /\ calls = <<>> /\ ret = NoRet /\ results = <<>>
         /\ payload = Text("Maximum 50 studies can be processed at once", NoMsg)

\* the tool was called with 51 accessions and has returned
C5_Witness ==
  /\ pc = "done"
  /\ tool = "batchGetStudies"
  /\ Len(args.accessions) = 51
  /\ payload.tmpl = "Maximum 50 studies can be processed at once"

ClientBatchReturnedOutside ==
  /\ pc = "done"
  /\ tool = "client.batchGetStudies"
  /\ (Len(args.accessions) = 0 \/ Len(args.accessions) > 50)

\* C6 as stated: the client's batch fetch rejects upfront, returning a
\* failure result without issuing any request, both for zero accessions and
\* for more than 50.
C6_Original ==
  ClientBatchReturnedOutside =>
    /\ calls = <<>>
    /\ ret.api.hasError
    /\ ~ret.api.hasData

\* C6 amended: the client's batch fetch returns upfront without issuing any
\* request in both cases; for more than 50 accessions the result is a failure
\* with status 400, for zero accessions it is a success with status 200 and
\* an empty BatchResult (total 0, both lists empty).
C6_UpfrontReturn ==
  ClientBatchReturnedOutside =>
    /\ calls = <<>>
    /\ results = <<>>
    /\ Len(args.accessions) > 50 =>
         /\ ErrorTruthy(ret.api) /\ ~ret.api.hasData /\ ret.api.status = 400
    /\ Len(args.accessions) = 0 =>
         /\ ~ret.api.hasError /\ ret.api.hasData /\ ret.api.status = 200
         /\ ret.bulk = Bulk(<<>>, <<>>, 0)

\* the client method was given zero accessions and has returned
C6_Witness ==
  /\ ClientBatchReturnedOutside
  /\ Len(args.accessions) = 0
  /\ ret.api.status = 200

(***************************************************************************)
(* The format check before every request that names an accession.          *)
(***************************************************************************)
AccessionMethods == {"getStudyDetails", "getStudyFiles", "getStudyLinks"}

\* C7: getStudyDetails, getStudyFiles and getStudyLinks issue a request only
\* for a well-formed accession; for every other input they return a failure
\* with status 400 and no request is made.  This holds for every call of
\* them: from a tool, as a member of a batch, as the lookup of
\* validate-accession and as the lookup of the files fallback.
C7_RequestOnlyIfWellFormed ==
  \A i \in 1..Len(calls) :
    calls[i].method \in AccessionMethods =>
      /\ calls[i].sent => WellFormedValue(calls[i].accno)
      /\ ~WellFormedValue(calls[i].accno) =>
           /\ ~calls[i].sent
           /\ calls[i].state = "returned"
           /\ ErrorTruthy(calls[i].res)
           /\ calls[i].res.status = 400

\* the links method was given an ill-formed accession and returned status 400
C7_Witness ==
  /\ pc = "done"
  /\ tool = "getStudyLinks"
  /\ Len(calls) = 1
  /\ ~calls[1].sent
  /\ calls[1].res.status = 400

\* C8: isValidAccessionNumber returns true exactly for the strings that
\* match, whole and without regard to case, one of the six accession
\* patterns; it returns false for every other string and for empty, null or
\* non-string input (and it returns: it does not throw).
C8_ClassifyMatchesFamilies ==
  clPc = "done" => clOut = WellFormedValue(clIn)

\* a lower-case accession was classified as valid
C8_Witness ==
  /\ clPc = "done"
  /\ clOut
  /\ \E i \in 1..Len(clIn.s) : clIn.s[i] \in LowerLetters

(***************************************************************************)
(* Fallback content and error payloads.                                    *)
(***************************************************************************)
FallbackTemplates ==
  {"Search Currently Unavailable", "Known BioStudies Collections",
   "Files API Unavailable (no metadata)",
   "Files (via metadata extraction): no files found", "Study not found"}
DegradableTools == {"searchStudies", "listCollections", "getStudyFiles"}
SingleRequestTools ==
  {"getStudyDetails", "getStudyLinks", "getStudyFiles", "searchStudies",
   "listCollections", "getCollectionStudies", "searchFiles", "authenticate"}

KnownCollectionGiven ==
  IsString(args.collection) /\ toLowerCase(args.collection.s) \in KnownKeys

\* C9: a search, collections-list or files call whose upstream request
\* returns HTTP 404 always routes to fallback content: the payload is not
\* error-flagged, carries no upstream error wording, and has at least one
\* example accession when a known collection filter was supplied.
C9_NotFoundRoutesToFallback ==
  (/\ pc = "done"
   /\ tool \in DegradableTools
   /\ Len(calls) >= 1
   /\ calls[1].outcome.kind = "response"
   /\ calls[1].outcome.status = 404) =>
    /\ payload.kind = "content"
    /\ ~payload.isError
    /\ payload.tmpl \in FallbackTemplates
    /\ payload.error = NoMsg
    /\ (tool = "searchStudies" /\ KnownCollectionGiven) =>
         /\ payload.examples # <<>>
         /\ \A k \in 1..Len(payload.examples) : WellFormedAccession(payload.examples[k])

\* the request of a call failed upstream: no response, or a non-2xx one
UpstreamFailure(c) ==
  /\ c.sent
  /\ c.state = "returned"
  /\ (c.outcome.kind = "throw" \/ ~ResponseOk(c.outcome))

\* C10: every upstream failure that is not a 404 on a degradable endpoint is
\* returned as an error-flagged text payload that carries the upstream
\* message, and is never rewritten into fallback content.
C10_FailureIsErrorPayload ==
  (/\ pc = "done"
   /\ tool \in SingleRequestTools
   /\ Len(calls) >= 1
   /\ UpstreamFailure(calls[1])
   /\ ~(calls[1].outcome.status = 404 /\ tool \in DegradableTools)) =>
    /\ payload.kind = "content"
    /\ payload.isError
    /\ payload.error = calls[1].res.error
    /\ payload.tmpl \notin FallbackTemplates

(***************************************************************************)
(* The fallback provider.                                                  *)
(***************************************************************************)
\* the handler took its 404 branch and the fallback has returned
FallbackRan ==
  /\ pc = "done"
  /\ tool \in DegradableTools
  /\ Len(calls) >= 1
  /\ FilesUnavailable(calls[1].res)

\* C11: the fallback provider never raises: whenever the search, collections
\* or files fallback has run, what comes back is a text payload that is not
\* error-flagged, also when the study-details lookup of the files fallback
\* failed or the reading of its body threw.
C11_FallbackNeverRaises ==
  FallbackRan => (payload.kind = "content" /\ ~payload.isError)

\* the lookup of the files fallback returned a study body
LookupGaveStudy ==
  /\ pc = "done"
  /\ tool = "getStudyFiles"
  /\ Len(calls) = 2
  /\ calls[2].outcome.kind = "response"
  /\ ResponseOk(calls[2].outcome)
  /\ calls[2].outcome.parseOk
  /\ calls[2].outcome.data.k \in {"object", "text"}
  /\ calls[2].outcome.data.subsectionsIsArray

\* the body has no file in its section nor in any subsection one level down
NoEmbeddedFiles(d) ==
  /\ d.files = <<>>
  /\ \A i \in 1..Len(d.subsections) : d.subsections[i].files = <<>>

\* C12: when the files fallback reads a study that has no file in its
\* top-level section nor in its subsections one level down, it returns the
\* "no files found" message: not a listing, not an error-flagged payload.
C12_NoFilesMessage ==
  (LookupGaveStudy /\ NoEmbeddedFiles(calls[2].outcome.data)) =>
    /\ payload.kind = "content"
    /\ ~payload.isError
    /\ payload.tmpl = "Files (via metadata extraction): no files found"
    /\ payload.listed = <<>>

\* the study read by the fallback has files two levels down only
C12_Witness ==
  /\ LookupGaveStudy
  /\ NoEmbeddedFiles(calls[2].outcome.data)
  /\ \E i \in 1..Len(calls[2].outcome.data.subsections) :
        calls[2].outcome.data.subsections[i].deeper # <<>>
  /\ payload.tmpl = "Files (via metadata extraction): no files found"

(***************************************************************************)
(* Caller errors.                                                          *)
(***************************************************************************)
AccnoTools == {"getStudyDetails", "validateStudyAccession"}

\* a routed tool has answered a call whose required argument was missing,
\* empty or of the wrong type, or that carried no arguments at all
RequiredArgumentMissing ==
  /\ pc = "done"
  /\ tool \in DispatchedTools
  /\ \/ ~args.present
     \/ tool \in AccnoTools /\ (args.accno.t # "string" \/ args.accno.s = <<>>)
     \/ tool = "batchGetStudies" /\ ~args.isArray

\* C13: a call of a routed tool whose required argument is missing, empty or
\* of the wrong type, or that carries no argument object, is answered with
\* an invalid-params protocol error, not with an error-flagged payload, and
\* makes no upstream request.
C13_MissingArgumentIsCallerError ==
  RequiredArgumentMissing =>
    /\ reply.kind = "mcpError"
    /\ reply.code = "InvalidParams"
    /\ calls = <<>>

AccessionTools ==
  {"getStudyDetails", "getStudyFiles", "getStudyLinks", "validateStudyAccession"}

\* a tool that requires an accession was given a string that is not
\* well-formed, or the batch tool an array of no or of more than 50 members
CallerErrorCase ==
  /\ pc = "done"
  /\ \/ /\ tool \in AccessionTools
        /\ args.present
        /\ args.accno.t = "string" /\ args.accno.s # <<>>
        /\ ~WellFormedAccession(args.accno.s)
     \/ /\ tool = "batchGetStudies"
        /\ args.present /\ args.isArray
        /\ Len(args.accessions) \notin 1..50

FailedOutcomes == {o \in NetOutcomes : makeRequest(o).hasError}
WellFormedArgs == {AccnoArgs(v) : v \in {w \in ArgAccnoInputs : WellFormedValue(w)}}
WellFormedBatches == {<<Str(AccA)>>, <<Str(AccA), Str(AccB)>>}

\* everything tool t can return after a request of it failed upstream
RemoteFailurePayloads(t) ==
  CASE t = "getStudyDetails" ->
         {RenderStudyDetails(a, makeRequest(o)) : a \in WellFormedArgs, o \in FailedOutcomes}
    [] t = "getStudyLinks" ->
         {RenderStudyLinks(a, makeRequest(o)) : a \in WellFormedArgs, o \in FailedOutcomes}
    [] t = "getStudyFiles" ->
         {RenderStudyFiles(a, makeRequest(o)) : a \in WellFormedArgs, o \in FailedOutcomes}
           \cup {RenderExtractedFiles(a.accno, makeRequest(o)) :
                   a \in WellFormedArgs, o \in NetOutcomes}
    [] t = "validateStudyAccession" ->
         {RenderValidation(a, Validation(TRUE, Exists(makeRequest(o)))) :
            a \in WellFormedArgs, o \in FailedOutcomes}
    [] t = "batchGetStudies" ->
         UNION {{RenderBatch(Ret(ApiData(DataObject, 200), NoValidation,
                                 AssembleBulk(acc,
                                              [i \in 1..Len(acc) |->
                                                 MemberPromise(makeRequest(f[i]))],
                                              <<>>))) :
                   f \in [1..Len(acc) -> BatchOutcomes]} : acc \in WellFormedBatches}
    [] OTHER -> {}

OneRequestTools ==
  {"getStudyDetails", "getStudyLinks", "searchStudies", "listCollections",
   "getCollectionStudies", "searchFiles", "authenticate", "validateStudyAccession"}

\* C15: no request is re-issued.  Within an invocation a tool that needs one
\* request makes at most one call; the files tool makes a second call only
\* as the study-details lookup that follows a 404 of its files request; a
\* batch makes one call per member; and every call is settled once.
C15_SingleAttempt ==
  /\ tool \in OneRequestTools => Len(calls) <= 1
  /\ tool = "getStudyFiles" =>
       /\ Len(calls) <= 2
       /\ Len(calls) = 2 =>
            /\ calls[1].method = "getStudyFiles"
            /\ calls[1].res.status = 404
            /\ calls[2].method = "getStudyDetails"
  /\ tool \in BatchTools => Len(calls) \in {0, Len(args.accessions)}
  /\ pc = "done" => \A i \in 1..Len(calls) : calls[i].state = "returned"
  /\ \A i \in 1..Len(calls) :
       calls[i].state = "pending" <=> (calls[i].sent /\ calls[i].outcome = NoOutcome)

\* the one request of a study-details call failed and the call has returned
C15_Witness ==
  /\ pc = "done"
  /\ tool = "getStudyDetails"
  /\ Len(calls) = 1
  /\ UpstreamFailure(calls[1])
  /\ payload.isError

(***************************************************************************)
(* The ApiResponse of makeRequest against what the network did.            *)
(***************************************************************************)
Returned(i) == calls[i].sent /\ calls[i].state = "returned"

\* C16: a request that hits the 30-second timeout returns a failure whose
\* reason is "Request timeout" and whose status is 408, not the status 0 of
\* a transport failure.
C16_TimeoutIs408 ==
  \A i \in 1..Len(calls) :
    (Returned(i) /\ calls[i].outcome \in TimeoutOutcomes) =>
      /\ calls[i].res.hasError
      /\ calls[i].res.error = <<"Request timeout">>
      /\ calls[i].res.status = 408

\* C17: whenever a response was received the ApiResponse carries its status,
\* as a failure for a non-2xx response and as a success for a 2xx one; the
\* status 0 appears only when no response was received.
C17_ActualStatus ==
  \A i \in 1..Len(calls) :
    Returned(i) =>
      /\ calls[i].outcome.kind = "response" =>
           /\ calls[i].res.status = calls[i].outcome.status
           /\ ResponseOk(calls[i].outcome) =>
                (calls[i].res.hasData /\ ~calls[i].res.hasError)
           /\ ~ResponseOk(calls[i].outcome) =>
                (calls[i].res.hasError /\ ~calls[i].res.hasData)
      /\ calls[i].res.status = 0 => calls[i].outcome.kind = "throw"

(***************************************************************************)
(* The bearer token.                                                       *)
(***************************************************************************)
\* the authenticate call has returned a token
TokenReturned ==
  /\ pc = "done"
  /\ tool = "authenticate"
  /\ Len(calls) = 1
  /\ calls[1].res.hasData
  /\ calls[1].res.data.token # NoMsg

\* C18: no request carries an Authorization header before a token has been
\* established; once authenticate has returned a token, that token is the
\* client's token and every request issued from then on carries it, until
\* it is cleared or replaced (by a later authenticate or by setAuthToken);
\* after it has been cleared no request carries the header.
C18_TokenCarried ==
  /\ authToken = NoMsg
  /\ [](\A i \in 1..Len(calls) :
          calls[i].sent => (calls[i].auth = authToken \/ TokenReturned))
  /\ [](TokenReturned => authToken = calls[1].res.data.token)
  /\ [][authToken' # authToken =>
          \/ TokenReturned'
          \/ pc = "idle" /\ pc' = "idle" /\ authToken' \in ManualTokens \cup {NoMsg}]_vars

\* a request of a later invocation carried the token that authenticate returned
C18_Witness ==
  /\ pc = "done"
  /\ tool = "getStudyDetails"
  /\ Len(calls) = 1
  /\ calls[1].sent
  /\ calls[1].auth = <<"tok">>
  /\ authToken = <<"tok">>

(***************************************************************************)
(* Accession validation.                                                   *)
(***************************************************************************)
\* the validation tool has answered for a non-empty string
ValidationReturned ==
  /\ pc = "done"
  /\ tool = "validateStudyAccession"
  /\ args.present
  /\ args.accno.t = "string" /\ args.accno.s # <<>>

\* the network answered with a 2xx response whose body is a payload
GaveStudyPayload(o) ==
  /\ o.kind = "response"
  /\ o.status \in 200..299
  /\ o.json => o.parseOk
  /\ o.data.k \in {"object", "text"}

\* C19: isValid depends on the format only and exists on the lookup only.
\* An ill-formed string gives isValid = false and exists = false with no
\* call at all; a well-formed one gives isValid = true and one study-details
\* request, with exists = true exactly when that request returned a payload
\* without error.
C19_ValidationFlags ==
  ValidationReturned =>
    /\ ret.validation.isValid <=> WellFormedAccession(args.accno.s)
    /\ ~WellFormedAccession(args.accno.s) =>
         (~ret.validation.exists /\ calls = <<>>)
    /\ WellFormedAccession(args.accno.s) =>
         /\ Len(calls) = 1
         /\ calls[1].sent
         /\ calls[1].method = "getStudyDetails"
         /\ ret.validation.exists <=> GaveStudyPayload(calls[1].outcome)
    /\ payload.kind = "content" /\ ~payload.isError

\* a well-formed accession whose study was not found upstream
C19_Witness ==
  /\ ValidationReturned
  /\ ret.validation.isValid
  /\ ~ret.validation.exists
  /\ calls[1].outcome.status = 404
  /\ payload.tmpl = "Valid format but study not found"

(***************************************************************************)
(* Paging.                                                                 *)
(***************************************************************************)
PagedTools == {"searchStudies", "getCollectionStudies"}

\* a search or collection-studies call has reached the client
PagedCallMade ==
  /\ tool \in PagedTools
  /\ Len(calls) = 1
  /\ calls[1].method = "searchStudies"

\* C20: in every search and collection-studies call the client is given
\* page 0 when no page was supplied, size 20 when no size was supplied, and
\* never a size above 100, whatever the caller supplied.
C20_PagingClamped ==
  PagedCallMade =>
    /\ args.page.t = "undefined" => calls[1].page = 0
    /\ args.size.t = "undefined" => calls[1].size = 20
    /\ calls[1].size <= 100

\* the caller asked for 500 per page and the client was given 100
C20_Witness ==
  /\ PagedCallMade
  /\ args.size = Num(500)
  /\ calls[1].size = 100
  /\ calls[1].page = 2

(***************************************************************************)
(* The pagination trailer.                                                 *)
(***************************************************************************)
\* a search or collection-studies call has returned a listing of hits
HitsListed ==
  /\ pc = "done"
  /\ tool \in PagedTools
  /\ payload.kind = "content"
  /\ payload.tmpl \in {"Found studies", "Studies in collection"}

\* the page index the handler goes by, the number of hits and the total
CurrentPage ==
  IF tool = "searchStudies" THEN calls[1].outcome.data.page ELSE calls[1].page
Shown == calls[1].outcome.data.hits
Total == calls[1].outcome.data.totalHits

\* C21 as stated: the trailer is "Page {page+1}, showing X of Y total" if the
\* page index is nonzero or the page is full (X >= requested size);
\* otherwise "Showing first X of Y total" if X < Y; otherwise none.
C21_Original ==
  HitsListed =>
    payload.trailer =
      IF CurrentPage # 0 \/ Shown >= calls[1].size
        THEN [kind |-> "page", page |-> CurrentPage + 1, shown |-> Shown, total |-> Total]
        ELSE IF Shown < Total
          THEN [kind |-> "first", page |-> 0, shown |-> Shown, total |-> Total]
          ELSE [kind |-> "none", page |-> 0, shown |-> 0, total |-> 0]

\* C21 amended: the trailer is "Page {page+1}, showing X of Y total" if the
\* page index is greater than zero or the page is full (X >= the size given
\* to the client); otherwise "Showing first X of Y total" if X < Y;
\* otherwise none.  The page index is the one the response reports for a
\* search and the one asked for in a collection listing.
C21_PaginationTrailer ==
  HitsListed =>
    payload.trailer =
      IF CurrentPage > 0 \/ Shown >= calls[1].size
        THEN [kind |-> "page", page |-> CurrentPage + 1, shown |-> Shown, total |-> Total]
        ELSE IF Shown < Total
          THEN [kind |-> "first", page |-> 0, shown |-> Shown, total |-> Total]
          ELSE [kind |-> "none", page |-> 0, shown |-> 0, total |-> 0]

\* 20 hits of 25 on page 0 with size 20: "Page 1, showing 20 of 25"
C21_Witness ==
  /\ HitsListed
  /\ CurrentPage = 0
  /\ calls[1].size = 20
  /\ Shown = 20 /\ Total = 25
  /\ payload.trailer = [kind |-> "page", page |-> 1, shown |-> 20, total |-> 25]

(***************************************************************************)
(* The details view.                                                       *)
(***************************************************************************)
\* the details of a study body have been rendered
DetailsShown ==
  /\ pc = "done"
  /\ tool = "getStudyDetails"
  /\ payload.kind = "content"
  /\ payload.tmpl = "Study"
  /\ calls[1].outcome.data.k = "object"

StudyShown == calls[1].outcome.data
FirstOf(n, k) == IF n < k THEN n ELSE k

\* the file listing: the first min(n,10) files in order and, only when
\* n > 10, the line "... and (n-10) more files"
FileListingTruncated ==
  LET n == Len(StudyShown.files)
  IN /\ payload.details.files = [i \in 1..FirstOf(n, 10) |-> StudyShown.files[i]]
     /\ payload.details.moreFiles = IF n > 10 THEN n - 10 ELSE 0

\* C22 as stated: the file listing is truncated to 10 as above, and a
\* listing of m subsections shows the first min(m,5) in order and, only
\* when m > 5, the line with m-5.
C22_Original ==
  DetailsShown =>
    LET m == Len(StudyShown.subsections)
    IN /\ FileListingTruncated
       /\ payload.details.subsections = [i \in 1..FirstOf(m, 5) |-> i]
       /\ payload.details.moreSubsections = IF m > 5 THEN m - 5 ELSE 0

\* C22 amended: the file listing is truncated to 10 as above; of the first
\* min(m,5) subsections those that have a type are shown, in order and
\* numbered by their position, the others are left out; and only when
\* m > 5 the line with m-5 follows.
C22_ListingsTruncated ==
  DetailsShown =>
    LET m == Len(StudyShown.subsections)
        shown == payload.details.subsections
    IN /\ FileListingTruncated
       /\ \A j \in 1..Len(shown) :
            /\ shown[j] \in 1..FirstOf(m, 5)
            /\ StudyShown.subsections[shown[j]].typed
            /\ j > 1 => shown[j - 1] < shown[j]
       /\ \A i \in 1..FirstOf(m, 5) :
            StudyShown.subsections[i].typed => \E j \in 1..Len(shown) : shown[j] = i
       /\ payload.details.moreSubsections = IF m > 5 THEN m - 5 ELSE 0

\* a study of 11 files and 6 subsections: 10 and 5 shown, one more of each
C22_Witness ==
  /\ DetailsShown
  /\ Len(StudyShown.files) = 11
  /\ Len(payload.details.files) = 10
  /\ payload.details.moreFiles = 1
  /\ Len(StudyShown.subsections) = 6
  /\ payload.details.subsections = <<1, 2, 3, 4, 5>>
  /\ payload.details.moreSubsections = 1

\* the fields behind the optional blocks of the details view
HasToShow(study, header) ==
  CASE header = "Study Attributes" ->
         \E i \in 1..Len(study.attributes) : study.attributes[i] # "Title"
    [] header = "Associated Files" -> study.files # <<>>
    [] header = "Authors" -> study.authors > 0
    [] header = "Statistics" -> study.views > 0 \/ study.downloads > 0
    [] OTHER -> FALSE

\* C23: a block whose optional field is absent or has nothing to show is
\* left out of the details view: every block header that appears belongs
\* to a field that has something to show and has at least one line under
\* it.
C23_EmptyBlocksOmitted ==
  DetailsShown =>
    \A b \in payload.details.blocks :
      /\ HasToShow(StudyShown, b.header)
      /\ b.lines > 0

(***************************************************************************)
(* The batch fetch: launch and settle.                                     *)
(***************************************************************************)
BatchInFlight == tool \in BatchTools /\ pc = "awaitAll"

\* C24: all members of a batch are launched together, before any of them
\* has to settle; the batch has not returned while a member is in flight;
\* when it has returned every member has settled; and a batch in flight
\* does return.
C24_LaunchedTogetherSettledAll ==
  /\ [](BatchInFlight =>
          /\ Len(calls) = Len(args.accessions)
          /\ Len(results) = Len(args.accessions)
          /\ ret = NoRet)
  /\ []((tool \in BatchTools /\ pc = "done") =>
          \A i \in 1..Len(calls) :
            calls[i].state = "returned" /\ results[i].status # "pending")
  /\ (BatchInFlight ~> (tool \in BatchTools /\ pc = "done"))

\* three members were in flight together and the one launched last settled
\* first; the batch has returned
C24_Witness ==
  /\ tool \in BatchTools
  /\ pc = "done"
  /\ Len(calls) = 3
  /\ \A i \in 1..3 : calls[i].sent
  /\ settled = <<3, 1, 2>>
  /\ ret.bulk.total = 3

(***************************************************************************)
(* Overlapping authenticate calls.                                         *)
(***************************************************************************)
\* the i-th call is an authenticate whose answer carried a token
WroteToken(i) ==
  /\ calls[i].method = "authenticate"
  /\ calls[i].state = "returned"
  /\ calls[i].res.hasData
  /\ calls[i].res.data.token # NoMsg

RECURSIVE LastWritten(_)
\* the token of the authenticate that was the last to finish with one
LastWritten(order) ==
  IF order = <<>> THEN NoMsg
  ELSE IF WroteToken(order[Len(order)])
    THEN calls[order[Len(order)]].res.data.token
    ELSE LastWritten(SubSeq(order, 1, Len(order) - 1))

\* C25: with authenticate calls overlapping one another and other requests,
\* the token is that of the authenticate whose response was processed
\* last; a request carries the token that was current when the request was
\* built, and a write of the token while the request is in flight does not
\* change what it carries.
C25_LastWriterWins ==
  /\ [](authToken = LastWritten(settled))
  /\ [][/\ Len(calls') > Len(calls) => calls'[Len(calls')].auth = authToken
        /\ \A i \in 1..Len(calls) : calls'[i].auth = calls[i].auth]_vars

\* two authenticate calls overlapped and the one started first finished
\* last: its token is the client's, while a request built in between is
\* still in flight with the other token
C25_Witness ==
  /\ Len(calls) = 3
  /\ settled = <<2, 1>>
  /\ WroteToken(1) /\ WroteToken(2)
  /\ calls[3].state = "pending"
  /\ calls[3].auth = IssuedToken(2)
  /\ authToken = IssuedToken(1)

(***************************************************************************)
(* Who writes the token.                                                   *)
(***************************************************************************)
\* a step of a request operation: an invocation begins, resumes or returns
\* (clearAuthentication and setAuthToken are steps between invocations)
RequestStep == pc # "idle" \/ pc' # "idle"

\* C26: a step of a request operation changes the token only when it is
\* authenticate reading a response whose body carries a token, and then to
\* that token; study fetch, files, links, search, collections, validation
\* and batch leave it as it was, and so does an authenticate that fails or
\* whose body has no token.
C26_OnlyAuthenticateWrites ==
  [][(RequestStep /\ authToken' # authToken) =>
       /\ tool = "authenticate" /\ pc = "await" /\ pc' = "done"
       /\ calls'[1].res.hasData
       /\ calls'[1].res.data.token # NoMsg
       /\ authToken' = calls'[1].res.data.token]_vars

\* an authenticate issued with a token in place failed, and the token is
\* still in place
C26_Witness ==
  /\ pc = "done"
  /\ tool = "authenticate"
  /\ Len(calls) = 1
  /\ calls[1].auth # NoMsg
  /\ ErrorTruthy(calls[1].res)
  /\ authToken = calls[1].auth

(***************************************************************************)
(* The walk of the files fallback.                                         *)
(***************************************************************************)
\* where the walk is to find a file: <<0, k>> for the k-th file of the
\* section, <<i, k>> for the k-th file of its i-th subsection
Places(d) ==
  {<<0, k>> : k \in 1..Len(d.files)}
    \cup UNION {{<<i, k>> : k \in 1..Len(d.subsections[i].files)} :
                i \in 1..Len(d.subsections)}
FileAt(d, p) == IF p[1] = 0 THEN d.files[p[2]] ELSE d.subsections[p[1]].files[p[2]]
Before(p, q) == p[1] < q[1] \/ (p[1] = q[1] /\ p[2] < q[2])
DeeperFiles(d) ==
  UNION {{d.subsections[i].deeper[k] : k \in 1..Len(d.subsections[i].deeper)} :
           i \in 1..Len(d.subsections)}

\* C27: the files fallback lists the files of the top-level section and
\* then the files of each direct subsection, in document order: every
\* file at depth 0 or 1 is listed exactly once, in that order, and no
\* file from deeper down is listed.
C27_WalkOneLevel ==
  LookupGaveStudy =>
    LET d == calls[2].outcome.data
        listed == payload.listed
    IN /\ \A p \in Places(d) :
            Cardinality({k \in 1..Len(listed) : listed[k] = FileAt(d, p)}) = 1
       /\ Len(listed) = Cardinality(Places(d))
       /\ \A p, q \in Places(d) :
            Before(p, q) =>
              \A k, l \in 1..Len(listed) :
                (listed[k] = FileAt(d, p) /\ listed[l] = FileAt(d, q)) => k < l
       /\ \A k \in 1..Len(listed) : listed[k] \notin DeeperFiles(d)

\* the study read by the fallback has files in its section, in two of its
\* subsections and two levels down, and a listing came back
C27_Witness ==
  /\ LookupGaveStudy
  /\ calls[2].outcome.data.files # <<>>
  /\ Cardinality({i \in 1..Len(calls[2].outcome.data.subsections) :
                    calls[2].outcome.data.subsections[i].files # <<>>}) >= 2
  /\ DeeperFiles(calls[2].outcome.data) # {}
  /\ payload.listed # <<>>

(***************************************************************************)
(* Query strings.                                                          *)
(***************************************************************************)
\* the fields of the arguments that are filters
FiltersOf(a) ==
  CASE a.tool = "searchStudies" -> StudyFilters \cup {"keywords"}
    [] a.tool = "searchFiles" -> FileFilters \cup {"minSize", "maxSize"}
    [] OTHER -> {"collection"}

\* the caller gave nothing for the field: undefined, null, or empty
NothingGiven(v) ==
  \/ v.t \in {"undefined", "null"}
  \/ v = Str(<<>>)
  \/ v = KeywordList(<<>>)

\* the parameters of the query string that carry this name
Named(name) == {i \in 1..Len(qOut.params) : qOut.params[i][1] = name}

\* a filter for which nothing was given is not in the query string
EmptyFiltersOmitted ==
  qOut.sent => \A f \in FiltersOf(qIn) : NothingGiven(qIn[f]) => Named(f) = {}

\* C28: in the query string of every search and file-search request, a
\* filter for which the arguments hold nothing (absent, undefined, empty)
\* does not appear, and no parameter has the value "null" or "undefined".
C28_NoNullInQuery ==
  /\ EmptyFiltersOmitted
  /\ qOut.sent =>
       \A i \in 1..Len(qOut.params) :
         qOut.params[i][2] \notin {<<"null">>, <<"undefined">>}

(***************************************************************************)
(* Validation and failed lookups.                                          *)
(***************************************************************************)
\* the lookup of a validation did not come back with a 2xx response: the
\* fetch was rejected, timed out, or the server answered with another status
LookupFailed ==
  /\ ValidationReturned
  /\ Len(calls) = 1
  /\ calls[1].sent
  /\ \/ calls[1].outcome.kind = "throw"
     \/ calls[1].outcome.kind = "response" /\ ~ResponseOk(calls[1].outcome)

ClientFailure(i) ==
  /\ calls[i].sent
  /\ calls[i].state = "returned"
  /\ calls[i].res.hasError

\* C30: every failure of the client is recognised as one by the code that
\* reads it, a transport error with an empty message included: its error
\* passes the `if (result.error)` test, a batch puts the member in the
\* failed list and not in the successful one, and the details tool returns
\* an error-flagged payload, not a study and not "not found".
C30_FailureRecognised ==
  /\ \A i \in 1..Len(calls) : ClientFailure(i) => ErrorTruthy(calls[i].res)
  /\ BatchReturned =>
       \A i \in 1..Len(calls) : ClientFailure(i) => results[i].status = "rejected"
  /\ (pc = "done" /\ tool = "getStudyDetails" /\ Len(calls) = 1 /\ ClientFailure(1)) =>
       (payload.kind = "content" /\ payload.isError)

====
